---- MODULE Spec2Model ----
(***************************************************************************)
(* The multi-layer fraud-scoring pipeline of the Student Reimbursement     *)
(* Platform: Layer 1 (hash / duplicate detection, hash_service.py),        *)
(* Layer 2 (EXIF analysis, exif_service.py), Layer 3 (OCR, ocr_service.py), *)
(* the persistence of the findings (metadata_service.py) and the upload    *)
(* and test handlers of main.py.                                           *)
(*                                                                         *)
(* Risk scores are Python floats built by adding the literals 0.1 .. 0.9.  *)
(* They are modelled as integers in hundredths (0.25 is 25).  For every    *)
(* sum the code can build, the float comparisons against 0.4, 0.5, 0.7,    *)
(* 0.8 and 1.0 agree with the comparisons of the hundredths.               *)
(***************************************************************************)
EXTENDS Integers, Sequences, FiniteSets, TLC

\* Python's None and an optional value: the empty tuple, or a 1-tuple.
None == <<>>
Some(v) == <<v>>
IsNone(o) == o = <<>>
Get(o) == o[1]

Min(a, b) == IF a <= b THEN a ELSE b
MinOf(S) == CHOOSE x \in S : \A y \in S : x <= y

(***************************************************************************)
(* Strings: str.lower() and the substring test `a in b`.                   *)
(***************************************************************************)
ToLower ==
    [A |-> "a", B |-> "b", C |-> "c", D |-> "d", E |-> "e", F |-> "f", G |-> "g",
     H |-> "h", I |-> "i", J |-> "j", K |-> "k", L |-> "l", M |-> "m", N |-> "n",
     O |-> "o", P |-> "p", Q |-> "q", R |-> "r", S |-> "s", T |-> "t", U |-> "u",
     V |-> "v", W |-> "w", X |-> "x", Y |-> "y", Z |-> "z"]
UpperLetters == DOMAIN ToLower
LowerLetters == {ToLower[c] : c \in UpperLetters}

DigitValue ==
    [c \in {"0", "1", "2", "3", "4", "5", "6", "7", "8", "9"} |->
        CASE c = "0" -> 0 [] c = "1" -> 1 [] c = "2" -> 2 [] c = "3" -> 3 [] c = "4" -> 4
          [] c = "5" -> 5 [] c = "6" -> 6 [] c = "7" -> 7 [] c = "8" -> 8 [] c = "9" -> 9]

CharAt(s, i) == SubSeq(s, i, i)

LowerChar(c) == IF c \in UpperLetters THEN ToLower[c] ELSE c

RECURSIVE lower(_)
lower(s) == IF Len(s) = 0 THEN "" ELSE LowerChar(CharAt(s, 1)) \o lower(SubSeq(s, 2, Len(s)))

\* `sub in s`
Contains(sub, s) ==
    \E i \in 1..(Len(s) - Len(sub) + 1) : SubSeq(s, i, i + Len(sub) - 1) = sub

\* Whether one of the strings of the list occurs in str(v).lower().
AnyIn(list, v) == LET lv == lower(v) IN \E i \in DOMAIN list : Contains(list[i], lv)

IsDigit(c) == c \in DOMAIN DigitValue
DigitVal(c) == DigitValue[c]

(***************************************************************************)
(* datetime.strptime(s, "%Y:%m:%d %H:%M:%S") and (now - t).days            *)
(***************************************************************************)
IsLeap(y) == (y % 4 = 0 /\ y % 100 # 0) \/ y % 400 = 0
DaysInMonth(y, m) ==
    IF m = 2 THEN (IF IsLeap(y) THEN 29 ELSE 28)
    ELSE IF m \in {4, 6, 9, 11} THEN 30 ELSE 31

\* Days from 1970-01-01 to the civil date y-m-d (proleptic Gregorian).
DaysFromCivil(y, m, d) ==
    LET yy  == IF m <= 2 THEN y - 1 ELSE y
        era == yy \div 400
        yoe == yy - era * 400
        mp  == IF m > 2 THEN m - 3 ELSE m + 9
        doy == (153 * mp + 2) \div 5 + d - 1
        doe == yoe * 365 + yoe \div 4 - yoe \div 100 + doy
    IN  era * 146097 + doe - 719468

\* A numeric field of one or two digits starting at position i of s:
\* <<value, next position>>, or <<>> when no digit is there.
NumField(s, i) ==
    IF i > Len(s) \/ ~IsDigit(CharAt(s, i)) THEN <<>>
    ELSE IF i + 1 <= Len(s) /\ IsDigit(CharAt(s, i + 1))
         THEN <<10 * DigitVal(CharAt(s, i)) + DigitVal(CharAt(s, i + 1)), i + 2>>
         ELSE <<DigitVal(CharAt(s, i)), i + 1>>

\* The literal c at position i of s.
LitAt(s, i, c) == i <= Len(s) /\ CharAt(s, i) = c

RECURSIVE SkipSpaces(_, _)
SkipSpaces(s, i) == IF LitAt(s, i, " ") THEN SkipSpaces(s, i + 1) ELSE i

\* The parsed time as [days, secs] (days from 1970-01-01, seconds of the day),
\* or None when strptime raises ValueError.
strptime(s) ==
    IF ~(Len(s) >= 5 /\ \A i \in 1..4 : IsDigit(CharAt(s, i)) /\ LitAt(s, 5, ":")) THEN None
    ELSE
    LET y  == 1000 * DigitVal(CharAt(s, 1)) + 100 * DigitVal(CharAt(s, 2))
              + 10 * DigitVal(CharAt(s, 3)) + DigitVal(CharAt(s, 4))
        mo == NumField(s, 6)
    IN  IF mo = <<>> \/ ~LitAt(s, mo[2], ":") THEN None ELSE
    LET dd == NumField(s, mo[2] + 1)
    IN  IF dd = <<>> \/ ~LitAt(s, dd[2], " ") THEN None ELSE
    LET hh == NumField(s, SkipSpaces(s, dd[2]))
    IN  IF hh = <<>> \/ ~LitAt(s, hh[2], ":") THEN None ELSE
    LET mi == NumField(s, hh[2] + 1)
    IN  IF mi = <<>> \/ ~LitAt(s, mi[2], ":") THEN None ELSE
    LET ss == NumField(s, mi[2] + 1)
    IN  IF ss = <<>> \/ ss[2] # Len(s) + 1 THEN None
        ELSE IF /\ y >= 1
                /\ mo[1] \in 1..12
                /\ dd[1] >= 1 /\ dd[1] <= DaysInMonth(y, mo[1])
                /\ hh[1] <= 23 /\ mi[1] <= 59 /\ ss[1] <= 59
             THEN Some([days |-> DaysFromCivil(y, mo[1], dd[1]),
                        secs |-> 3600 * hh[1] + 60 * mi[1] + ss[1]])
             ELSE None

\* datetime.now() of the analysis: 2026-11-06 12:00:00.
Now == [days |-> DaysFromCivil(2026, 11, 6), secs |-> 12 * 3600]

\* (now - t).days: timedelta.days is the floor of the difference in days.
AgeDays(now, t) == (now.days - t.days) - (IF now.secs < t.secs THEN 1 ELSE 0)

(***************************************************************************)
(* An uploaded file: its bytes, whether PIL can decode it, the EXIF tags   *)
(* PIL reads from it (a mapping tag -> value, values already strings) and  *)
(* the text Tesseract recognises in it.  All three are fixed by the bytes. *)
(***************************************************************************)
EmptyDict == <<>>
Has(d, k) == k \in DOMAIN d

\* ExifService.extract_exif: {} when the image cannot be opened or carries
\* no EXIF block, the tag dictionary otherwise.
extract_exif(file) ==
    IF ~file.decodable THEN EmptyDict
    ELSE IF file.exif = EmptyDict THEN EmptyDict
    ELSE file.exif

EDITING_SOFTWARE ==
    <<"photoshop", "gimp", "paint.net", "affinity", "lightroom",
      "snapseed", "pixlr", "photoscape", "fotor">>

MOBILE_BRANDS ==
    <<"iphone", "samsung", "google", "huawei", "xiaomi",
      "oppo", "vivo", "oneplus", "motorola", "nokia">>

\* The first field of `fields` (in list order) that is present and whose value
\* hits (hit[i] for the i-th field), as the pair the check functions return:
\* (True, exif_data[field]) or (False, None).
FirstField(exif_data, fields, hit) ==
    LET hits == {i \in DOMAIN fields : hit[i]}
    IN  IF hits = {} THEN [found |-> FALSE, value |-> None]
        ELSE [found |-> TRUE, value |-> Some(exif_data[fields[MinOf(hits)]])]

\* ExifService.check_editing_software
check_editing_software(exif_data) ==
    LET software_fields == <<"Software", "ProcessingSoftware", "HostComputer">>
        is_editor == [i \in DOMAIN software_fields |->
                         /\ Has(exif_data, software_fields[i])
                         /\ AnyIn(EDITING_SOFTWARE, exif_data[software_fields[i]])]
    IN  FirstField(exif_data, software_fields, is_editor)

\* ExifService.check_mobile_camera
check_mobile_camera(exif_data) ==
    LET model_fields == <<"Model", "Make">>
        is_mobile == [i \in DOMAIN model_fields |->
                         /\ Has(exif_data, model_fields[i])
                         /\ AnyIn(MOBILE_BRANDS, exif_data[model_fields[i]])]
    IN  FirstField(exif_data, model_fields, is_mobile)

\* ExifService.get_photo_age_days: the age from the first datetime field
\* that parses, None when none does.
get_photo_age_days(exif_data) ==
    LET datetime_fields == <<"DateTime", "DateTimeOriginal", "DateTimeDigitized">>
        parses == [i \in DOMAIN datetime_fields |->
                      /\ Has(exif_data, datetime_fields[i])
                      /\ ~IsNone(strptime(exif_data[datetime_fields[i]]))]
        first == FirstField(exif_data, datetime_fields, parses)
    IN  IF first.found THEN Some(AgeDays(Now, Get(strptime(Get(first.value))))) ELSE None

\* check_exif_inconsistencies reporting an inconsistency only when more than
\* one condition is raised.
check_exif_inconsistencies_above_one(exif_data) ==
    LET f1 == IF Has(exif_data, "Software") /\ ~Has(exif_data, "Model")
              THEN <<"software_without_camera_model">> ELSE <<>>
        missing_fields == {f \in {"Make", "Model"} : ~Has(exif_data, f)}
        f2 == IF Cardinality(missing_fields) >= 1 /\ Has(exif_data, "DateTime")
              THEN <<"incomplete_camera_data">> ELSE <<>>
        dt_original  == IF Has(exif_data, "DateTimeOriginal") THEN exif_data["DateTimeOriginal"] ELSE ""
        dt_digitized == IF Has(exif_data, "DateTimeDigitized") THEN exif_data["DateTimeDigitized"] ELSE ""
        f3 == IF dt_original # "" /\ dt_digitized # "" /\ dt_original # dt_digitized
              THEN <<"inconsistent_timestamps">> ELSE <<>>
        flags == f1 \o f2 \o f3
    IN  [found |-> Len(flags) > 1, flags |-> flags]

\* ExifService.check_exif_inconsistencies
check_exif_inconsistencies(exif_data) ==
    LET f1 == IF Has(exif_data, "Software") /\ ~Has(exif_data, "Model")
              THEN <<"software_without_camera_model">> ELSE <<>>
        missing_fields == {f \in {"Make", "Model"} : ~Has(exif_data, f)}
        f2 == IF Cardinality(missing_fields) >= 1 /\ Has(exif_data, "DateTime")
              THEN <<"incomplete_camera_data">> ELSE <<>>
        dt_original  == IF Has(exif_data, "DateTimeOriginal") THEN exif_data["DateTimeOriginal"] ELSE ""
        dt_digitized == IF Has(exif_data, "DateTimeDigitized") THEN exif_data["DateTimeDigitized"] ELSE ""
        f3 == IF dt_original # "" /\ dt_digitized # "" /\ dt_original # dt_digitized
              THEN <<"inconsistent_timestamps">> ELSE <<>>
        flags == f1 \o f2 \o f3
    IN  [found |-> Len(flags) > 0, flags |-> flags]

SAFE_PATTERNS ==
    <<"ios", "android", "firmware", "camera", "iphone", "samsung", "google", "huawei">>

\* ExifService.check_any_software
check_any_software(exif_data) ==
    LET software_fields == <<"Software", "ProcessingSoftware">>
        unknown == [i \in DOMAIN software_fields |->
                       /\ Has(exif_data, software_fields[i])
                       /\ ~AnyIn(SAFE_PATTERNS, exif_data[software_fields[i]])
                       /\ Len(lower(exif_data[software_fields[i]])) > 2]
    IN  FirstField(exif_data, software_fields, unknown)

\* The stored-category thresholds 0.7 / 0.4 (exif_service.py and metadata_service.py).
Assessment(risk) ==
    IF risk >= 70 THEN "high_risk" ELSE IF risk >= 40 THEN "medium_risk" ELSE "low_risk"

\* analyze_exif with the unknown-software branch taken whenever check_any_software
\* fires, the test `and not is_edited` left out.
analyze_exif_unguarded(file) ==
    LET exif_data   == extract_exif(file)
        exif_exists == exif_data # EmptyDict
        r1 == IF ~exif_exists THEN 40 ELSE 0
        f1 == IF ~exif_exists THEN <<"no_exif_data">> ELSE <<>>
        exif_status == IF ~exif_exists THEN "missing" ELSE "present"
        edited == check_editing_software(exif_data)
        r2 == r1 + (IF edited.found THEN 50 ELSE 0)
        f2 == f1 \o (IF edited.found THEN <<"known_editing_software">> ELSE <<>>)
        mobile  == check_mobile_camera(exif_data)
        unknown == check_any_software(exif_data)
        applies == unknown.found
        post    == mobile.found /\ ~IsNone(mobile.value) /\ Get(mobile.value) # ""
        software_name == IF applies THEN unknown.value ELSE edited.value
        r3 == r2 + (IF applies THEN (IF post THEN 60 ELSE 30) ELSE 0)
        f3 == f2 \o (IF applies
                     THEN (IF post THEN <<"post_capture_editing_detected">>
                                   ELSE <<"unknown_software_detected">>)
                     ELSE <<>>)
        inc == check_exif_inconsistencies(exif_data)
        r4 == r3 + (IF inc.found THEN 25 ELSE 0)
        f4 == f3 \o (IF inc.found THEN inc.flags ELSE <<>>)
        f5 == f4 \o (IF ~mobile.found /\ exif_exists THEN <<"not_mobile_camera">> ELSE <<>>)
        photo_age == get_photo_age_days(exif_data)
        old == ~IsNone(photo_age) /\ Get(photo_age) # 0 /\ Get(photo_age) > 90
        r6 == r4 + (IF old THEN 10 ELSE 0)
        f6 == f5 \o (IF old THEN <<"old_photo">> ELSE <<>>)
        nodt == exif_exists /\ ~Has(exif_data, "DateTime")
        risk_score == r6 + (IF nodt THEN 20 ELSE 0)
        flags == f6 \o (IF nodt THEN <<"missing_datetime">> ELSE <<>>)
    IN  [exif_status          |-> exif_status,
         exif_exists          |-> exif_exists,
         has_editing_software |-> edited.found \/ unknown.found,
         editing_software     |-> software_name,
         is_mobile_camera     |-> mobile.found,
         camera_model         |-> IF exif_exists THEN mobile.value ELSE None,
         photo_age_days       |-> photo_age,
         risk_score           |-> risk_score,
         flags                |-> flags,
         assessment           |-> Assessment(risk_score),
         has_inconsistencies  |-> inc.found,
         timestamp_inconsistency |-> FALSE]

\* analyze_exif without the absence check: nothing is added, and no flag
\* raised, when the image has no tags.
analyze_exif_no_absence_check(file) ==
    LET exif_data   == extract_exif(file)
        exif_exists == exif_data # EmptyDict
        r1 == 0
        f1 == <<>>
        exif_status == IF ~exif_exists THEN "missing" ELSE "present"
        edited == check_editing_software(exif_data)
        r2 == r1 + (IF edited.found THEN 50 ELSE 0)
        f2 == f1 \o (IF edited.found THEN <<"known_editing_software">> ELSE <<>>)
        mobile  == check_mobile_camera(exif_data)
        unknown == check_any_software(exif_data)
        applies == unknown.found /\ ~edited.found
        post    == mobile.found /\ ~IsNone(mobile.value) /\ Get(mobile.value) # ""
        software_name == IF applies THEN unknown.value ELSE edited.value
        r3 == r2 + (IF applies THEN (IF post THEN 60 ELSE 30) ELSE 0)
        f3 == f2 \o (IF applies
                     THEN (IF post THEN <<"post_capture_editing_detected">>
                                   ELSE <<"unknown_software_detected">>)
                     ELSE <<>>)
        inc == check_exif_inconsistencies(exif_data)
        r4 == r3 + (IF inc.found THEN 25 ELSE 0)
        f4 == f3 \o (IF inc.found THEN inc.flags ELSE <<>>)
        f5 == f4 \o (IF ~mobile.found /\ exif_exists THEN <<"not_mobile_camera">> ELSE <<>>)
        photo_age == get_photo_age_days(exif_data)
        old == ~IsNone(photo_age) /\ Get(photo_age) # 0 /\ Get(photo_age) > 90
        r6 == r4 + (IF old THEN 10 ELSE 0)
        f6 == f5 \o (IF old THEN <<"old_photo">> ELSE <<>>)
        nodt == exif_exists /\ ~Has(exif_data, "DateTime")
        risk_score == r6 + (IF nodt THEN 20 ELSE 0)
        flags == f6 \o (IF nodt THEN <<"missing_datetime">> ELSE <<>>)
    IN  [exif_status          |-> exif_status,
         exif_exists          |-> exif_exists,
         has_editing_software |-> edited.found \/ unknown.found,
         editing_software     |-> software_name,
         is_mobile_camera     |-> mobile.found,
         camera_model         |-> IF exif_exists THEN mobile.value ELSE None,
         photo_age_days       |-> photo_age,
         risk_score           |-> risk_score,
         flags                |-> flags,
         assessment           |-> Assessment(risk_score),
         has_inconsistencies  |-> inc.found,
         timestamp_inconsistency |-> FALSE]

\* ExifService.analyze_exif
analyze_exif(file) ==
    LET exif_data   == extract_exif(file)
        exif_exists == exif_data # EmptyDict
        r1 == IF ~exif_exists THEN 40 ELSE 0
        f1 == IF ~exif_exists THEN <<"no_exif_data">> ELSE <<>>
        exif_status == IF ~exif_exists THEN "missing" ELSE "present"
        edited == check_editing_software(exif_data)
        r2 == r1 + (IF edited.found THEN 50 ELSE 0)
        f2 == f1 \o (IF edited.found THEN <<"known_editing_software">> ELSE <<>>)
        mobile  == check_mobile_camera(exif_data)
        unknown == check_any_software(exif_data)
        applies == unknown.found /\ ~edited.found
        post    == mobile.found /\ ~IsNone(mobile.value) /\ Get(mobile.value) # ""
        software_name == IF applies THEN unknown.value ELSE edited.value
        r3 == r2 + (IF applies THEN (IF post THEN 60 ELSE 30) ELSE 0)
        f3 == f2 \o (IF applies
                     THEN (IF post THEN <<"post_capture_editing_detected">>
                                   ELSE <<"unknown_software_detected">>)
                     ELSE <<>>)
        inc == check_exif_inconsistencies(exif_data)
        r4 == r3 + (IF inc.found THEN 25 ELSE 0)
        f4 == f3 \o (IF inc.found THEN inc.flags ELSE <<>>)
        f5 == f4 \o (IF ~mobile.found /\ exif_exists THEN <<"not_mobile_camera">> ELSE <<>>)
        photo_age == get_photo_age_days(exif_data)
        old == ~IsNone(photo_age) /\ Get(photo_age) # 0 /\ Get(photo_age) > 90
        r6 == r4 + (IF old THEN 10 ELSE 0)
        f6 == f5 \o (IF old THEN <<"old_photo">> ELSE <<>>)
        nodt == exif_exists /\ ~Has(exif_data, "DateTime")
        risk_score == r6 + (IF nodt THEN 20 ELSE 0)
        flags == f6 \o (IF nodt THEN <<"missing_datetime">> ELSE <<>>)
    IN  [exif_status          |-> exif_status,
         exif_exists          |-> exif_exists,
         has_editing_software |-> edited.found \/ unknown.found,
         editing_software     |-> software_name,
         is_mobile_camera     |-> mobile.found,
         camera_model         |-> IF exif_exists THEN mobile.value ELSE None,
         photo_age_days       |-> photo_age,
         risk_score           |-> risk_score,
         flags                |-> flags,
         assessment           |-> Assessment(risk_score),
         has_inconsistencies  |-> inc.found,
         timestamp_inconsistency |-> FALSE]

(***************************************************************************)
(* Layer 1: HashService (hash_service.py)                                  *)
(***************************************************************************)
\* f.read(4096)
BlockSize == 4096

\* Blocks with the loop ending at the first read shorter than BlockSize, that
\* read left out.
RECURSIVE BlocksFullOnly(_)
BlocksFullOnly(b) ==
    IF Len(b) < BlockSize THEN <<>>
    ELSE <<SubSeq(b, 1, BlockSize)>> \o BlocksFullOnly(SubSeq(b, BlockSize + 1, Len(b)))

\* The blocks iter(lambda: f.read(BlockSize), b"") yields for the bytes b.
RECURSIVE Blocks(_)
Blocks(b) ==
    IF Len(b) = 0 THEN <<>>
    ELSE IF Len(b) <= BlockSize THEN <<b>>
    ELSE <<SubSeq(b, 1, BlockSize)>> \o Blocks(SubSeq(b, BlockSize + 1, Len(b)))

\* hashlib.sha256: update() appends to the message, hexdigest() is a
\* collision-free function of the whole message (written sha256:<message>).
RECURSIVE Sha256Update(_, _)
Sha256Update(message, blocks) ==
    IF Len(blocks) = 0 THEN message
    ELSE Sha256Update(message \o Head(blocks), Tail(blocks))
Sha256HexDigest(message) == "sha256:" \o message

\* HashService.compute_sha256
compute_sha256(file) == Sha256HexDigest(Sha256Update("", Blocks(file.bytes)))

\* Query.first() over the rows that match: SQL fixes no order without
\* ORDER BY, so any matching row may be the first; None when none matches.
First(rows) == IF rows = {} THEN {None} ELSE {Some(r) : r \in rows}

\* HashService.check_duplicate, for each row first() may return.
check_duplicate(db_receipts, hash, student_id) ==
    { IF IsNone(existing_receipt)
      THEN [is_dup |-> FALSE, dup_receipt_id |-> None]
      ELSE [is_dup |-> TRUE, dup_receipt_id |-> Some(Get(existing_receipt).receipt_id)]
      : existing_receipt \in
          First({r \in db_receipts : r.sha256_hash = hash /\ r.student_id = student_id}) }

\* HashService.check_global_duplicate, for each row first() may return.
check_global_duplicate(db_receipts, hash) ==
    { IF IsNone(existing_receipt)
      THEN [is_global_dup |-> FALSE, other_student_id |-> None]
      ELSE [is_global_dup |-> TRUE, other_student_id |-> Some(Get(existing_receipt).student_id)]
      : existing_receipt \in First({r \in db_receipts : r.sha256_hash = hash}) }

\* validate_file_integrity with == in place of != in the fraud test.
Layer1ResultSameStudent(hash, student_id, own, global) ==
    LET fraud == global.is_global_dup /\ global.other_student_id = Some(student_id)
    IN  [sha256_hash          |-> hash,
         is_duplicate         |-> own.is_dup,
         duplicate_receipt_id |-> own.dup_receipt_id,
         is_global_duplicate  |-> fraud,
         fraud_suspected      |-> fraud,
         other_student_id     |-> IF global.is_global_dup THEN global.other_student_id ELSE None]

\* The result dictionary HashService.validate_file_integrity builds from the
\* two lookups.
Layer1Result(hash, student_id, own, global) ==
    LET fraud == global.is_global_dup /\ global.other_student_id # Some(student_id)
    IN  [sha256_hash          |-> hash,
         is_duplicate         |-> own.is_dup,
         duplicate_receipt_id |-> own.dup_receipt_id,
         is_global_duplicate  |-> fraud,
         fraud_suspected      |-> fraud,
         other_student_id     |-> IF global.is_global_dup THEN global.other_student_id ELSE None]

(***************************************************************************)
(* MetadataService (metadata_service.py) on one ReceiptMetadata row        *)
(***************************************************************************)
\* ReceiptMetadata(receipt_id=...) with the column defaults of the model class.
NewReceiptMetadata(receipt_id) ==
    [receipt_id               |-> receipt_id,
     exif_status              |-> None,
     has_editing_software     |-> FALSE,
     editing_software_name    |-> None,
     is_mobile_camera         |-> None,
     camera_model             |-> None,
     photo_age_days           |-> None,
     has_exif_inconsistencies |-> FALSE,
     exif_flags               |-> <<>>,
     layer2_risk_score        |-> 0,
     layer3_risk_score        |-> 0,
     layer4_risk_score        |-> 0,
     tampering_score          |-> 0,
     risk_factors             |-> None,
     assessment               |-> None]

\* save_layer2_results without the initial tampering score (line 38 left out).
save_layer2_results_without_tampering_score(metadata, layer2_analysis) ==
    [metadata EXCEPT
        !.exif_status              = Some(layer2_analysis.exif_status),
        !.has_editing_software     = layer2_analysis.has_editing_software,
        !.editing_software_name    = layer2_analysis.editing_software,
        !.is_mobile_camera         = Some(layer2_analysis.is_mobile_camera),
        !.camera_model             = layer2_analysis.camera_model,
        !.photo_age_days           = layer2_analysis.photo_age_days,
        !.has_exif_inconsistencies = layer2_analysis.has_inconsistencies,
        !.exif_flags               = layer2_analysis.flags,
        !.layer2_risk_score        = layer2_analysis.risk_score,
        !.assessment               = Some(layer2_analysis.assessment)]

\* MetadataService.save_layer2_results: the row after the field updates.
save_layer2_results(metadata, layer2_analysis) ==
    [metadata EXCEPT
        !.exif_status              = Some(layer2_analysis.exif_status),
        !.has_editing_software     = layer2_analysis.has_editing_software,
        !.editing_software_name    = layer2_analysis.editing_software,
        !.is_mobile_camera         = Some(layer2_analysis.is_mobile_camera),
        !.camera_model             = layer2_analysis.camera_model,
        !.photo_age_days           = layer2_analysis.photo_age_days,
        !.has_exif_inconsistencies = layer2_analysis.has_inconsistencies,
        !.exif_flags               = layer2_analysis.flags,
        !.layer2_risk_score        = layer2_analysis.risk_score,
        !.assessment               = Some(layer2_analysis.assessment),
        !.tampering_score          = layer2_analysis.risk_score]

\* update_combined_risk_score without the min(total_risk, 1.0) cap.
update_combined_risk_score_uncapped(metadata, layer1_fraud, layer1_duplicate) ==
    LET total_risk == metadata.layer2_risk_score
                        + (IF layer1_fraud THEN 90 ELSE IF layer1_duplicate THEN 30 ELSE 0)
                        + metadata.layer3_risk_score + metadata.layer4_risk_score
    IN  [metadata EXCEPT
            !.tampering_score = total_risk,
            !.assessment      = Some(Assessment(total_risk)),
            !.risk_factors    = Some([total_risk |-> total_risk])]

\* update_combined_risk_score starting from the stored tampering_score instead
\* of layer2_risk_score.
update_combined_risk_score_accumulating(metadata, layer1_fraud, layer1_duplicate) ==
    LET total_risk == Min(metadata.tampering_score
                            + (IF layer1_fraud THEN 90 ELSE IF layer1_duplicate THEN 30 ELSE 0)
                            + metadata.layer3_risk_score + metadata.layer4_risk_score, 100)
    IN  [metadata EXCEPT
            !.tampering_score = total_risk,
            !.assessment      = Some(Assessment(total_risk)),
            !.risk_factors    = Some([total_risk |-> total_risk])]

\* MetadataService.update_combined_risk_score: the row after the update.
update_combined_risk_score(metadata, layer1_fraud, layer1_duplicate) ==
    LET t1 == metadata.layer2_risk_score
        t2 == t1 + (IF layer1_fraud THEN 90 ELSE IF layer1_duplicate THEN 30 ELSE 0)
        t3 == t2 + metadata.layer3_risk_score
        t4 == t3 + metadata.layer4_risk_score
        total_risk == Min(t4, 100)
        assessment == Assessment(total_risk)
    IN  [metadata EXCEPT
            !.tampering_score = total_risk,
            !.assessment      = Some(assessment),
            !.risk_factors    =
                Some([layer1 |-> [fraud_detected     |-> layer1_fraud,
                                  duplicate_detected |-> layer1_duplicate],
                      layer2 |-> [risk_score           |-> metadata.layer2_risk_score,
                                  flags                |-> metadata.exif_flags,
                                  has_editing_software |-> metadata.has_editing_software,
                                  editing_software     |-> metadata.editing_software_name],
                      total_risk |-> total_risk,
                      assessment |-> assessment])]

(***************************************************************************)
(* Layer 3: OCRService (ocr_service.py).  The regular expressions are      *)
(* matched as re.search matches them: leftmost start, greedy, IGNORECASE.  *)
(***************************************************************************)
IsSpace(c) == c \in {" ", "\n", "\t", "\r"}

RECURSIVE lstrip(_)
lstrip(s) == IF Len(s) > 0 /\ IsSpace(CharAt(s, 1)) THEN lstrip(SubSeq(s, 2, Len(s))) ELSE s
RECURSIVE rstrip(_)
rstrip(s) == IF Len(s) > 0 /\ IsSpace(CharAt(s, Len(s))) THEN rstrip(SubSeq(s, 1, Len(s) - 1)) ELSE s
strip(s) == rstrip(lstrip(s))

\* extract_text without the try / except: the text is taken whether or not the
\* image could be opened.
extract_text_uncaught(file) == strip(file.text)

\* OCRService.extract_text: the recognised text, stripped; "" on any exception.
extract_text(file) == IF ~file.decodable THEN "" ELSE strip(file.text)

\* The literal `lit` (ignoring case) at position i: the position after it, or 0.
MatchLit(s, i, lit) ==
    IF i + Len(lit) - 1 <= Len(s) /\ lower(SubSeq(s, i, i + Len(lit) - 1)) = lower(lit)
    THEN i + Len(lit) ELSE 0

\* \s* from position i: the position after the whitespace.
RECURSIVE SkipWs(_, _)
SkipWs(s, i) == IF i <= Len(s) /\ IsSpace(CharAt(s, i)) THEN SkipWs(s, i + 1) ELSE i

IsSep(s, i) == i <= Len(s) /\ CharAt(s, i) \in {":", "-"}

IsIdChar(c) == IsDigit(c) \/ c = "-" \/ c \in UpperLetters \/ c \in LowerLetters

\* Whether c is in the character class: "d" is \d, "id" is [A-Z0-9\-] ignoring case.
InClass(c, class) == IF class = "d" THEN IsDigit(c) ELSE IsIdChar(c)

\* The number of characters of the class from position i on, at most max.
RECURSIVE Run(_, _, _, _)
Run(s, i, max, class) ==
    IF max = 0 \/ i > Len(s) \/ ~InClass(CharAt(s, i), class) THEN 0
    ELSE 1 + Run(s, i + 1, max - 1, class)

\* W1\s*W2\s*[:\-]?\s*(\d{6,10}) at position i: the group, or None.
MatchCardLabel(s, i, w1, w2) ==
    LET a == MatchLit(s, i, w1)
        b == IF a = 0 THEN 0 ELSE MatchLit(s, SkipWs(s, a), w2)
        c == IF b = 0 THEN 0 ELSE SkipWs(s, b)
        d == IF b = 0 THEN 0 ELSE SkipWs(s, IF IsSep(s, c) THEN c + 1 ELSE c)
        n == IF b = 0 THEN 0 ELSE Run(s, d, 10, "d")
    IN  IF n >= 6 THEN Some(SubSeq(s, d, d + n - 1)) ELSE None

\* re.search of a card-label pattern: the group of the leftmost match, or None.
SearchCardLabel(s, w1, w2) ==
    LET starts == {i \in 1..Len(s) : ~IsNone(MatchCardLabel(s, i, w1, w2))}
    IN  IF starts = {} THEN None ELSE MatchCardLabel(s, MinOf(starts), w1, w2)

STPT_PATTERNS ==
    << <<"SERIE", "CARD">>, <<"CARD", "ID">>, <<"CARD", "NO">>,
       <<"STPT", "ID">>, <<"STPT", "CARD">> >>

\* extract_stpt_id returning the match that starts leftmost in the text, of
\* whichever pattern.
extract_stpt_id_leftmost(text) ==
    LET starts == [k \in DOMAIN STPT_PATTERNS |->
                      {i \in 1..Len(text) :
                          ~IsNone(MatchCardLabel(text, i, STPT_PATTERNS[k][1],
                                                 STPT_PATTERNS[k][2]))}]
        hits == {k \in DOMAIN STPT_PATTERNS : starts[k] # {}}
    IN  IF hits = {} THEN [id |-> None, confidence |-> 0]
        ELSE LET k == CHOOSE h \in hits :
                          \A j \in hits : MinOf(starts[h]) <= MinOf(starts[j])
             IN  [id |-> SearchCardLabel(text, STPT_PATTERNS[k][1], STPT_PATTERNS[k][2]),
                  confidence |-> IF STPT_PATTERNS[k][1] = "SERIE" THEN 90 ELSE 70]

\* extract_stpt_id with confidence 0.6 for the labels other than SERIE CARD.
extract_stpt_id_generic_at_60(text) ==
    LET hits == {k \in DOMAIN STPT_PATTERNS :
                    ~IsNone(SearchCardLabel(text, STPT_PATTERNS[k][1], STPT_PATTERNS[k][2]))}
    IN  IF hits = {} THEN [id |-> None, confidence |-> 0]
        ELSE LET k == MinOf(hits)
             IN  [id |-> SearchCardLabel(text, STPT_PATTERNS[k][1], STPT_PATTERNS[k][2]),
                  confidence |-> IF STPT_PATTERNS[k][1] = "SERIE" THEN 90 ELSE 60]

\* OCRService.extract_stpt_id: (stpt_id, confidence)
extract_stpt_id(text) ==
    LET hits == {k \in DOMAIN STPT_PATTERNS :
                    ~IsNone(SearchCardLabel(text, STPT_PATTERNS[k][1], STPT_PATTERNS[k][2]))}
    IN  IF hits = {} THEN [id |-> None, confidence |-> 0]
        ELSE LET k == MinOf(hits)
             IN  [id |-> SearchCardLabel(text, STPT_PATTERNS[k][1], STPT_PATTERNS[k][2]),
                  confidence |-> IF STPT_PATTERNS[k][1] = "SERIE" THEN 90 ELSE 70]

\* (TR\d{14}) at position i.
MatchTR(s, i) ==
    LET a == MatchLit(s, i, "TR")
    IN  IF a # 0 /\ Run(s, a, 14, "d") = 14 THEN Some(SubSeq(s, i, a + 13)) ELSE None

\* WORD\s*[:\-]?\s*([A-Z0-9\-]{8,20}) at position i; when the group fails after
\* the optional separator took a "-", the separator is given back to the group.
MatchLabelledCode(s, i, word) ==
    LET a  == MatchLit(s, i, word)
        b  == IF a = 0 THEN 0 ELSE SkipWs(s, a)
        c  == IF a = 0 THEN 0 ELSE SkipWs(s, IF IsSep(s, b) THEN b + 1 ELSE b)
        n1 == IF a = 0 THEN 0 ELSE Run(s, c, 20, "id")
        n2 == IF a = 0 THEN 0 ELSE Run(s, b, 20, "id")
    IN  IF a = 0 THEN None
        ELSE IF n1 >= 8 THEN Some(SubSeq(s, c, c + n1 - 1))
        ELSE IF n2 >= 8 THEN Some(SubSeq(s, b, b + n2 - 1))
        ELSE None

RECEIPT_LABELS == <<"RECEIPT", "TRANSACTION", "REF">>

\* The group of the leftmost match of the k-th receipt-id pattern, or None.
SearchReceiptPattern(s, k) ==
    LET M(i) == IF k = 1 THEN MatchTR(s, i) ELSE MatchLabelledCode(s, i, RECEIPT_LABELS[k - 1])
        starts == {i \in 1..Len(s) : ~IsNone(M(i))}
    IN  IF starts = {} THEN None ELSE M(MinOf(starts))

\* OCRService.extract_receipt_id: (receipt_id, confidence)
extract_receipt_id(text) ==
    LET hits == {k \in 1..4 : ~IsNone(SearchReceiptPattern(text, k))}
    IN  IF hits = {} THEN [id |-> None, confidence |-> 0]
        ELSE [id |-> SearchReceiptPattern(text, MinOf(hits)), confidence |-> 80]

\* analyze_receipt_text when recognition gave no text (ocr_service.py 99-109).
OcrFailedResult ==
    [ocr_successful |-> FALSE, raw_text |-> "",
     stpt_id |-> None, stpt_id_confidence |-> 0,
     receipt_id |-> None, receipt_id_confidence |-> 0,
     risk_score |-> 50, flags |-> <<"ocr_failed">>]

\* ScoredTextResult with nothing added for a missing receipt id.
ScoredTextResultNoReceiptRisk(raw_text, stpt, receipt) ==
    LET r1 == IF IsNone(stpt.id) THEN 40 ELSE IF stpt.confidence < 70 THEN 20 ELSE 0
        f1 == IF IsNone(stpt.id) THEN <<"stpt_id_not_found">>
              ELSE IF stpt.confidence < 70 THEN <<"stpt_id_low_confidence">> ELSE <<>>
        r2 == r1
        f2 == f1 \o (IF IsNone(receipt.id) THEN <<"receipt_id_not_found">> ELSE <<>>)
        avg_confidence == IF ~IsNone(stpt.id) \/ ~IsNone(receipt.id)
                          THEN (stpt.confidence + receipt.confidence) \div 2 ELSE 0
        r3 == r2 + (IF avg_confidence < 60 THEN 20 ELSE 0)
        f3 == f2 \o (IF avg_confidence < 60 THEN <<"low_ocr_quality">> ELSE <<>>)
    IN  [ocr_successful |-> TRUE, raw_text |-> raw_text,
         stpt_id |-> stpt.id, stpt_id_confidence |-> stpt.confidence,
         receipt_id |-> receipt.id, receipt_id_confidence |-> receipt.confidence,
         average_confidence |-> avg_confidence,
         risk_score |-> Min(r3, 100), flags |-> f3]

\* analyze_receipt_text from the two extraction results on (ocr_service.py
\* 117-149): the risk accumulation and the result.
ScoredTextResult(raw_text, stpt, receipt) ==
    LET r1 == IF IsNone(stpt.id) THEN 40 ELSE IF stpt.confidence < 70 THEN 20 ELSE 0
        f1 == IF IsNone(stpt.id) THEN <<"stpt_id_not_found">>
              ELSE IF stpt.confidence < 70 THEN <<"stpt_id_low_confidence">> ELSE <<>>
        r2 == r1 + (IF IsNone(receipt.id) THEN 10 ELSE 0)
        f2 == f1 \o (IF IsNone(receipt.id) THEN <<"receipt_id_not_found">> ELSE <<>>)
        avg_confidence == IF ~IsNone(stpt.id) \/ ~IsNone(receipt.id)
                          THEN (stpt.confidence + receipt.confidence) \div 2 ELSE 0
        r3 == r2 + (IF avg_confidence < 60 THEN 20 ELSE 0)
        f3 == f2 \o (IF avg_confidence < 60 THEN <<"low_ocr_quality">> ELSE <<>>)
    IN  [ocr_successful |-> TRUE, raw_text |-> raw_text,
         stpt_id |-> stpt.id, stpt_id_confidence |-> stpt.confidence,
         receipt_id |-> receipt.id, receipt_id_confidence |-> receipt.confidence,
         average_confidence |-> avg_confidence,
         risk_score |-> Min(r3, 100), flags |-> f3]

\* AnalyzeRawText without the early return on empty text.
AnalyzeRawTextNoEarlyReturn(raw_text) ==
    ScoredTextResult(raw_text, extract_stpt_id(raw_text), extract_receipt_id(raw_text))

\* analyze_receipt_text once the text is extracted (ocr_service.py 99-149).
AnalyzeRawText(raw_text) ==
    IF raw_text = "" THEN OcrFailedResult
    ELSE ScoredTextResult(raw_text, extract_stpt_id(raw_text), extract_receipt_id(raw_text))

\* OCRService.analyze_receipt_text
analyze_receipt_text(file) == AnalyzeRawText(extract_text(file))

(***************************************************************************)
(* The uploads the model draws from.                                       *)
(***************************************************************************)
\* Uploads the handlers accept before the model stops taking new ones.
MaxUploads == 3

Workers  == {"w1", "w2"}
Students == {1, 2}

CleanPhoto ==
    [bytes |-> "clean", decodable |-> TRUE,
     exif  |-> [Make |-> "Apple", Model |-> "iPhone 13", Software |-> "iOS 17.1",
                DateTime |-> "2026:11:01 10:00:00"],
     text  |-> "SERIE CARD:555845\nTR20250215001234"]
Screenshot ==
    [bytes |-> "shot", decodable |-> TRUE, exif |-> EmptyDict,
     text  |-> "SERIE CARD:555845"]
Photoshopped ==
    [bytes |-> "ps", decodable |-> TRUE,
     exif  |-> [Software |-> "Adobe Photoshop CC", Model |-> "iPhone 13"],
     text  |-> "TOTAL 12.50"]
EditedOnPhone ==
    [bytes |-> "edit", decodable |-> TRUE,
     exif  |-> [Software |-> "com.unknowntool.app", Model |-> "iPhone 13"],
     text  |-> ""]
OldEdited ==
    [bytes |-> "old", decodable |-> TRUE,
     exif  |-> [Software |-> "com.unknowntool.app", Make |-> "samsung",
                DateTimeOriginal |-> "2020:01:01 10:00:00"],
     text  |-> "CARD ID: 123456 REF: ABCD-1234"]

\* The files by name; a request carries the name of the file it uploads.
Files ==
    [CleanPhoto |-> CleanPhoto, Screenshot |-> Screenshot, Photoshopped |-> Photoshopped,
     EditedOnPhone |-> EditedOnPhone, OldEdited |-> OldEdited]

UploadFiles == DOMAIN Files

Endpoints == {"combined", "hash"}

\* What the layers compute for each file (each depends on the file alone).
FileHash     == [f \in UploadFiles |-> compute_sha256(Files[f])]
ExifAnalysis == [f \in UploadFiles |-> analyze_exif(Files[f])]
TextAnalysis == [f \in UploadFiles |-> analyze_receipt_text(Files[f])]

(***************************************************************************)
(* State.  The record store holds the committed rows; each worker process  *)
(* serves one request at a time (the handlers are coroutines that never    *)
(* suspend), and several worker processes share the store.                 *)
(***************************************************************************)
VARIABLES
    requests,          \* committed rows of table requests
    receipts,          \* committed rows of table receipts
    receipt_metadata,  \* committed rows of table receipt_metadata
    next_request_id,   \* the autoincrement of requests.request_id
    uuids_minted,      \* how many uuid4() receipt ids were minted
    uploads,           \* how many uploads were accepted by a handler
    pc,                \* worker -> its position in the handler
    upload,            \* worker -> the request: endpoint, file, student_id
    own_lookup,        \* worker -> the result of check_duplicate
    layer1_result,     \* worker -> the result of validate_file_integrity
    session,           \* worker -> rows added and flushed, not yet committed
    receipt_uuid,      \* worker -> the receipt id minted for this upload
    layer2_result,     \* worker -> the result of analyze_exif
    response,          \* worker -> the response returned to the caller
    exif_file,         \* the file posted to /test/exif-layer
    exif_response,     \* the response of /test/exif-layer
    ocr_file,          \* the file posted to /test/ocr-layer
    ocr_response,      \* the response of /test/ocr-layer
    hash_file,         \* the file handed to compute_sha256
    hash_digest,       \* the digest compute_sha256 returned
    service_calls      \* the MetadataService calls made so far, in order

store == <<requests, receipts, receipt_metadata, next_request_id, uuids_minted>>
locals == <<pc, upload, own_lookup, layer1_result, session, receipt_uuid,
            layer2_result, response>>
exifvars == <<exif_file, exif_response>>
ocrvars == <<ocr_file, ocr_response>>
hashvars == <<hash_file, hash_digest>>
unitvars == <<ocrvars, hashvars, service_calls>>
vars == <<store, uploads, locals, exifvars, unitvars>>

EmptySession == [requests |-> {}, receipts |-> {}]

Init ==
    /\ requests = {} /\ receipts = {} /\ receipt_metadata = {}
    /\ next_request_id = 1
    /\ uuids_minted = 0
    /\ uploads = 0
    /\ pc = [w \in Workers |-> "idle"]
    /\ upload = [w \in Workers |-> None]
    /\ own_lookup = [w \in Workers |-> None]
    /\ layer1_result = [w \in Workers |-> None]
    /\ session = [w \in Workers |-> EmptySession]
    /\ receipt_uuid = [w \in Workers |-> None]
    /\ layer2_result = [w \in Workers |-> None]
    /\ response = [w \in Workers |-> None]
    /\ exif_file = None
    /\ exif_response = None
    /\ ocr_file = None /\ ocr_response = None
    /\ hash_file = None /\ hash_digest = None
    /\ service_calls = <<>>

File(w) == Get(upload[w]).file
StudentId(w) == Get(upload[w]).student_id
EndpointOf(w) == Get(upload[w]).endpoint

\* What a query of worker w's session sees: the committed rows and its own
\* flushed rows.
VisibleReceipts(w) == receipts \cup session[w].receipts

\* A worker takes the next request: the upload is written to the temp path.
Accept(w, endpoint, file, student_id) ==
    /\ pc[w] = "idle"
    /\ uploads < MaxUploads
    /\ uploads' = uploads + 1
    /\ pc' = [pc EXCEPT ![w] = "check_duplicate"]
    /\ upload' = [upload EXCEPT ![w] =
                    Some([endpoint |-> endpoint, file |-> file, student_id |-> student_id])]
    /\ UNCHANGED <<store, own_lookup, layer1_result, session, receipt_uuid,
                   layer2_result, response, exifvars, unitvars>>

\* validate_file_integrity, first lookup: compute_sha256 and check_duplicate.
CheckDuplicate(w) ==
    /\ pc[w] = "check_duplicate"
    /\ \E own \in check_duplicate(VisibleReceipts(w), FileHash[File(w)], StudentId(w)) :
          own_lookup' = [own_lookup EXCEPT ![w] = Some(own)]
    /\ pc' = [pc EXCEPT ![w] = "check_global_duplicate"]
    /\ UNCHANGED <<store, uploads, upload, layer1_result, session, receipt_uuid,
                   layer2_result, response, exifvars, unitvars>>

\* validate_file_integrity, second lookup: check_global_duplicate and the result.
CheckGlobalDuplicate(w) ==
    /\ pc[w] = "check_global_duplicate"
    /\ \E global \in check_global_duplicate(VisibleReceipts(w), FileHash[File(w)]) :
          layer1_result' = [layer1_result EXCEPT ![w] =
              Some(Layer1Result(FileHash[File(w)], StudentId(w),
                                Get(own_lookup[w]), global))]
    /\ pc' = [pc EXCEPT ![w] = "layer1_done"]
    /\ UNCHANGED <<store, uploads, upload, own_lookup, session, receipt_uuid,
                   layer2_result, response, exifvars, unitvars>>

\* No early return on a Layer 1 finding.
RejectedNever(l1) == FALSE

\* The early return taken on is_duplicate alone.
RejectedOnDuplicateOnly(l1) == l1.is_duplicate

\* The early return taken on fraud_suspected alone.
RejectedOnFraudOnly(l1) == l1.fraud_suspected

\* The test both handlers make on the Layer 1 result (main.py 95, 254, 262).
Rejected(l1) == l1.fraud_suspected \/ l1.is_duplicate

\* Both handlers: the early return on a Layer 1 finding.
RejectResponse(endpoint, l1) ==
    IF endpoint = "combined"
    THEN [action |-> "rejected", layer1 |-> l1, database_saved |-> FALSE]
    ELSE [action |-> "rejected", layer1 |-> l1]

Layer1Reject(w) ==
    /\ pc[w] = "layer1_done"
    /\ Rejected(Get(layer1_result[w]))
    /\ response' = [response EXCEPT ![w] =
                      Some(RejectResponse(EndpointOf(w), Get(layer1_result[w])))]
    /\ pc' = [pc EXCEPT ![w] = "done"]
    /\ UNCHANGED <<store, uploads, upload, own_lookup, layer1_result, session,
                   receipt_uuid, layer2_result, exifvars, unitvars>>

NewRequest(request_id, student_id, comment) ==
    [request_id |-> request_id, student_id |-> student_id,
     comment |-> comment, status |-> "pending"]

NewReceipt(uuid, student_id, request_id, hash) ==
    [receipt_id |-> uuid, student_id |-> student_id,
     request_id |-> request_id, sha256_hash |-> hash]

\* test_hash_layer, Layer 1 passed: the request and the receipt are added
\* and committed.
HashSave(w) ==
    /\ pc[w] = "layer1_done"
    /\ EndpointOf(w) = "hash"
    /\ ~Rejected(Get(layer1_result[w]))
    /\ LET uuid == uuids_minted + 1
           l1   == Get(layer1_result[w])
       IN  /\ uuids_minted' = uuid
           /\ next_request_id' = next_request_id + 1
           /\ requests' = requests \cup
                  {NewRequest(next_request_id, StudentId(w), "Test upload via hash layer")}
           /\ receipts' = receipts \cup
                  {NewReceipt(uuid, StudentId(w), next_request_id, l1.sha256_hash)}
           /\ receipt_uuid' = [receipt_uuid EXCEPT ![w] = Some(uuid)]
           /\ response' = [response EXCEPT ![w] =
                  Some([action |-> "saved", layer1 |-> l1, receipt_id |-> uuid])]
    /\ pc' = [pc EXCEPT ![w] = "done"]
    /\ UNCHANGED <<receipt_metadata, uploads, upload, own_lookup, layer1_result,
                   session, layer2_result, exifvars, unitvars>>

\* test_combined_layers, Layer 1 passed: the request and the receipt are
\* added and flushed (main.py 271-305), not yet committed.
SaveReceipt(w) ==
    /\ pc[w] = "layer1_done"
    /\ EndpointOf(w) = "combined"
    /\ ~Rejected(Get(layer1_result[w]))
    /\ LET uuid == uuids_minted + 1
       IN  /\ uuids_minted' = uuid
           /\ next_request_id' = next_request_id + 1
           /\ session' = [session EXCEPT ![w] =
                  [requests |-> {NewRequest(next_request_id, StudentId(w),
                                            "Test upload via combined layers")},
                   receipts |-> {NewReceipt(uuid, StudentId(w), next_request_id,
                                            Get(layer1_result[w]).sha256_hash)}]]
           /\ receipt_uuid' = [receipt_uuid EXCEPT ![w] = Some(uuid)]
    /\ pc' = [pc EXCEPT ![w] = "layer2"]
    /\ UNCHANGED <<requests, receipts, receipt_metadata, uploads, upload, own_lookup,
                   layer1_result, layer2_result, response, exifvars, unitvars>>

\* test_combined_layers: Layer 2 on the permanent copy of the file.
AnalyzeExif(w) ==
    /\ pc[w] = "layer2"
    /\ layer2_result' = [layer2_result EXCEPT ![w] = Some(ExifAnalysis[File(w)])]
    /\ pc' = [pc EXCEPT ![w] = "save_layer2"]
    /\ UNCHANGED <<store, uploads, upload, own_lookup, layer1_result, session,
                   receipt_uuid, response, exifvars, unitvars>>

MetadataOf(receipt_id) == {m \in receipt_metadata : m.receipt_id = receipt_id}

\* MetadataService.save_layer2_results: create or update the row, commit
\* (the commit also makes the flushed request and receipt visible).
SaveLayer2(w) ==
    /\ pc[w] = "save_layer2"
    /\ \E existing \in First(MetadataOf(Get(receipt_uuid[w]))) :
          LET metadata == IF IsNone(existing)
                          THEN NewReceiptMetadata(Get(receipt_uuid[w]))
                          ELSE Get(existing)
              saved == save_layer2_results(metadata, Get(layer2_result[w]))
          IN  receipt_metadata' = (receipt_metadata \ {metadata}) \cup {saved}
    /\ requests' = requests \cup session[w].requests
    /\ receipts' = receipts \cup session[w].receipts
    /\ session' = [session EXCEPT ![w] = EmptySession]
    /\ pc' = [pc EXCEPT ![w] = "update_combined"]
    /\ UNCHANGED <<next_request_id, uuids_minted, uploads, upload, own_lookup,
                   layer1_result, receipt_uuid, layer2_result, response, exifvars, unitvars>>

\* MetadataService.update_combined_risk_score as test_combined_layers calls it.
UpdateCombined(w) ==
    /\ pc[w] = "update_combined"
    /\ \E existing \in First(MetadataOf(Get(receipt_uuid[w]))) :
          IF IsNone(existing) THEN UNCHANGED receipt_metadata
          ELSE receipt_metadata' = (receipt_metadata \ {Get(existing)}) \cup
                  {update_combined_risk_score(Get(existing),
                       Get(layer1_result[w]).fraud_suspected,
                       Get(layer1_result[w]).is_duplicate)}
    /\ pc' = [pc EXCEPT ![w] = "respond"]
    /\ UNCHANGED <<requests, receipts, next_request_id, uuids_minted, uploads, upload,
                   own_lookup, layer1_result, session, receipt_uuid, layer2_result,
                   response, exifvars, unitvars>>

\* The decision with the action thresholds at 0.9 and 0.75.
DecisionLenient(total_risk) ==
    IF total_risk >= 90 THEN "flagged_high_risk"
    ELSE IF total_risk >= 75 THEN "flagged_medium_risk"
    ELSE "approved"

\* The decision with > in place of >= at both thresholds.
DecisionStrict(total_risk) ==
    IF total_risk > 80 THEN "flagged_high_risk"
    ELSE IF total_risk > 50 THEN "flagged_medium_risk"
    ELSE "approved"

\* The ingestion-time decision of test_combined_layers (main.py 329-341).
Decision(total_risk) ==
    IF total_risk >= 80 THEN "flagged_high_risk"
    ELSE IF total_risk >= 50 THEN "flagged_medium_risk"
    ELSE "approved"

\* The final response of test_combined_layers (main.py 344-371).
CombinedResponse(student_id, uuid, l1, l2) ==
    LET total_risk == l2.risk_score
    IN  [student_id |-> student_id,
         receipt_id |-> uuid,
         action     |-> Decision(total_risk),
         layer1     |-> [sha256_hash     |-> l1.sha256_hash,
                         is_duplicate    |-> l1.is_duplicate,
                         fraud_suspected |-> l1.fraud_suspected],
         layer2     |-> [exif_status          |-> l2.exif_status,
                         has_editing_software |-> l2.has_editing_software,
                         editing_software     |-> l2.editing_software,
                         is_mobile_camera     |-> l2.is_mobile_camera,
                         camera_model         |-> l2.camera_model,
                         flags                |-> l2.flags,
                         risk_score           |-> l2.risk_score,
                         assessment           |-> l2.assessment],
         combined_risk_score |-> Min(total_risk, 100),
         database_saved      |-> TRUE]

\* test_combined_layers: db.commit(), the decision and the response.
Respond(w) ==
    /\ pc[w] = "respond"
    /\ response' = [response EXCEPT ![w] =
          Some(CombinedResponse(StudentId(w), Get(receipt_uuid[w]),
                                Get(layer1_result[w]), Get(layer2_result[w])))]
    /\ pc' = [pc EXCEPT ![w] = "done"]
    /\ UNCHANGED <<store, uploads, upload, own_lookup, layer1_result, session,
                   receipt_uuid, layer2_result, exifvars, unitvars>>

\* The handler has returned: its temp file is removed (the finally block),
\* its session is closed and the worker is free for the next request.
Finish(w) ==
    /\ pc[w] = "done"
    /\ pc' = [pc EXCEPT ![w] = "idle"]
    /\ upload' = [upload EXCEPT ![w] = None]
    /\ own_lookup' = [own_lookup EXCEPT ![w] = None]
    /\ layer1_result' = [layer1_result EXCEPT ![w] = None]
    /\ session' = [session EXCEPT ![w] = EmptySession]
    /\ receipt_uuid' = [receipt_uuid EXCEPT ![w] = None]
    /\ layer2_result' = [layer2_result EXCEPT ![w] = None]
    /\ response' = [response EXCEPT ![w] = None]
    /\ UNCHANGED <<store, uploads, exifvars, unitvars>>

\* The steps of a handler once it has taken a request.
Handle(w) ==
    \/ CheckDuplicate(w)
    \/ CheckGlobalDuplicate(w)
    \/ Layer1Reject(w)
    \/ HashSave(w)
    \/ SaveReceipt(w)
    \/ AnalyzeExif(w)
    \/ SaveLayer2(w)
    \/ UpdateCombined(w)
    \/ Respond(w)
    \/ Finish(w)

\* Several worker processes serve uploads against one store.
Next ==
    \E w \in Workers :
        \/ \E e \in Endpoints, f \in UploadFiles, s \in Students : Accept(w, e, f, s)
        \/ Handle(w)

Spec == Init /\ [][Next]_vars

\* Uploads that do not overlap: a request is taken only when no other is
\* being handled.
AcceptAlone(w, endpoint, file, student_id) ==
    /\ \A v \in Workers : pc[v] = "idle"
    /\ Accept(w, endpoint, file, student_id)

NextSeq ==
    \E w \in Workers :
        \/ \E e \in Endpoints, f \in UploadFiles, s \in Students : AcceptAlone(w, e, f, s)
        \/ Handle(w)

SpecSeq == Init /\ [][NextSeq]_vars

(***************************************************************************)
(* The Metadata layer alone: POST /test/exif-layer over a range of tag     *)
(* sets.  Each tag is absent or carries one of the values below.           *)
(***************************************************************************)
SoftwareValues == {"Adobe Photoshop CC", "com.unknowntool.app", "iOS 17.1", "ab"}
ProcessingSoftwareValues == {"GIMP 2.10", "darktable"}
HostComputerValues == {"Lightroom Host"}
ModelValues == {"iPhone 13", "Canon EOS 80D"}
MakeValues == {"samsung", "Canon"}
\* 90 days old, 91 days old, and a value strptime rejects
DateTimeValues == {"2026:08:08 12:00:00", "2026:08:07 12:00:00", "0000:00:00 00:00:00"}
DateTimeOriginalValues == {"2026:11:01 10:00:00", "2020:01:01 10:00:00"}
DateTimeDigitizedValues == {"2026:11:01 10:00:00", ""}

Optional(values) == {None} \cup {Some(v) : v \in values}

\* The tag dictionary holding the tags that are present.
Dict(tags) == [k \in {n \in DOMAIN tags : ~IsNone(tags[n])} |-> Get(tags[k])]

ExifDicts ==
    { Dict([Software |-> sw, ProcessingSoftware |-> ps, HostComputer |-> hc,
            Model |-> mo, Make |-> ma, DateTime |-> dt,
            DateTimeOriginal |-> dto, DateTimeDigitized |-> dtd]) :
        sw \in Optional(SoftwareValues), ps \in Optional(ProcessingSoftwareValues),
        hc \in Optional(HostComputerValues), mo \in Optional(ModelValues),
        ma \in Optional(MakeValues), dt \in Optional(DateTimeValues),
        dto \in Optional(DateTimeOriginalValues),
        dtd \in Optional(DateTimeDigitizedValues) }

\* The images posted: every tag set, and one file PIL cannot open.
ExifFiles ==
    {[decodable |-> TRUE, exif |-> d] : d \in ExifDicts}
        \cup {[decodable |-> FALSE, exif |-> EmptyDict]}

ExifInit ==
    /\ requests = {} /\ receipts = {} /\ receipt_metadata = {}
    /\ next_request_id = 1
    /\ uuids_minted = 0
    /\ uploads = 0
    /\ pc = [w \in Workers |-> "idle"]
    /\ upload = [w \in Workers |-> None]
    /\ own_lookup = [w \in Workers |-> None]
    /\ layer1_result = [w \in Workers |-> None]
    /\ session = [w \in Workers |-> EmptySession]
    /\ receipt_uuid = [w \in Workers |-> None]
    /\ layer2_result = [w \in Workers |-> None]
    /\ response = [w \in Workers |-> None]
    /\ exif_file \in {Some(f) : f \in ExifFiles}
    /\ exif_response = None
    /\ ocr_file = None /\ ocr_response = None
    /\ hash_file = None /\ hash_digest = None
    /\ service_calls = <<>>

\* The interpretation test_exif_layer adds to the analysis.
ExifMessage(assessment) ==
    IF assessment = "high_risk" THEN "HIGH RISK"
    ELSE IF assessment = "medium_risk" THEN "MEDIUM RISK" ELSE "LOW RISK"

\* The body test_exif_layer returns (main.py 183-215).
ExifLayerResponse(result, raw_exif) ==
    [result        |-> result,
     raw_exif_data |-> raw_exif,
     message       |-> ExifMessage(result.assessment)]

\* test_exif_layer (main.py 158-219)
TestExifLayer ==
    /\ ~IsNone(exif_file)
    /\ IsNone(exif_response)
    /\ exif_response' = Some(ExifLayerResponse(analyze_exif(Get(exif_file)),
                                               extract_exif(Get(exif_file))))
    /\ UNCHANGED <<store, uploads, locals, exif_file, unitvars>>

ExifNext == TestExifLayer

SpecExif == ExifInit /\ [][ExifNext]_vars

(***************************************************************************)
(* The Metadata and Text-Extraction layers on one posted image: the same   *)
(* file goes to POST /test/exif-layer and to POST /test/ocr-layer.  The    *)
(* recognised text is a sequence of lines drawn from the lines below.      *)
(***************************************************************************)
\* Longest recognised text, in lines.
MaxLines == 3

OcrLines ==
    {"SERIE CARD:555845", "card id: 123456", "STPT CARD-7654321", "Card No 12345",
     "TR20250215001234", "REF: ABCD-1234", "TOTAL 12.50"}

\* The lines joined by newlines.
RECURSIVE JoinLines(_)
JoinLines(lines) ==
    IF Len(lines) = 0 THEN ""
    ELSE IF Len(lines) = 1 THEN lines[1]
    ELSE lines[1] \o "\n" \o JoinLines(Tail(lines))

\* The sequences of n distinct lines.
RECURSIVE LineSeqs(_)
LineSeqs(n) ==
    IF n = 0 THEN {<<>>}
    ELSE UNION {{Append(q, l) : l \in OcrLines \ {q[i] : i \in DOMAIN q}} :
                   q \in LineSeqs(n - 1)}

\* What Tesseract may return: up to MaxLines distinct lines, with the trailing
\* newline image_to_string appends; a blank page gives white space only.
OcrTexts ==
    {JoinLines(q) \o "\n" : q \in UNION {LineSeqs(n) : n \in 1..MaxLines}}
        \cup {"", " \n"}

\* The tag sets of the posted images.
LayerExifs ==
    {EmptyDict,
     [Make |-> "Apple", Model |-> "iPhone 13", DateTime |-> "2026:11:01 10:00:00"],
     [Software |-> "Adobe Photoshop CC", DateTimeOriginal |-> "2020:01:01 10:00:00"]}

\* The posted images: readable ones, and corrupt ones that make Image.open
\* (or the reading of the tags, or Tesseract) raise.
LayerFiles ==
    {[decodable |-> TRUE, exif |-> e, text |-> t] : e \in LayerExifs, t \in OcrTexts}
        \cup {[decodable |-> FALSE, exif |-> e, text |-> t] :
                e \in LayerExifs, t \in {"", "SERIE CARD:555845\n"}}

\* No upload handler has run.
HandlersIdle ==
    /\ requests = {} /\ receipts = {} /\ receipt_metadata = {}
    /\ next_request_id = 1
    /\ uuids_minted = 0
    /\ uploads = 0
    /\ pc = [w \in Workers |-> "idle"]
    /\ upload = [w \in Workers |-> None]
    /\ own_lookup = [w \in Workers |-> None]
    /\ layer1_result = [w \in Workers |-> None]
    /\ session = [w \in Workers |-> EmptySession]
    /\ receipt_uuid = [w \in Workers |-> None]
    /\ layer2_result = [w \in Workers |-> None]
    /\ response = [w \in Workers |-> None]

LayersInit ==
    /\ HandlersIdle
    /\ \E f \in LayerFiles : exif_file = Some(f) /\ ocr_file = Some(f)
    /\ exif_response = None
    /\ ocr_response = None
    /\ hash_file = None /\ hash_digest = None
    /\ service_calls = <<>>

DigitChars == <<"0", "1", "2", "3", "4", "5", "6", "7", "8", "9">>

\* f"{c:.2f}" of a confidence in hundredths (below 10.00).
Format2f(c) ==
    DigitChars[(c \div 100) + 1] \o "." \o DigitChars[((c \div 10) % 10) + 1]
        \o DigitChars[(c % 10) + 1]

\* The record r with the fields of extra added (dict item assignment).
WithFields(r, extra) ==
    [k \in DOMAIN r \cup DOMAIN extra |-> IF k \in DOMAIN extra THEN extra[k] ELSE r[k]]

\* raw_text[:500] + "..." when the text is longer than 500 characters.
TextPreview(raw_text) ==
    IF Len(raw_text) > 500 THEN SubSeq(raw_text, 1, 500) \o "..." ELSE raw_text

\* The interpretation test_ocr_layer adds to the analysis (main.py 406-410).
OcrMessage(stpt_id, stpt_id_confidence) ==
    IF ~IsNone(stpt_id)
    THEN "STPT ID FOUND: " \o Get(stpt_id) \o " (confidence: "
            \o Format2f(stpt_id_confidence) \o ")"
    ELSE "STPT ID NOT FOUND in receipt text"

\* The keys test_ocr_layer adds to the analysis (main.py 406-415).
OcrLayerFields(result) ==
    IF result.raw_text # ""
    THEN [message      |-> OcrMessage(result.stpt_id, result.stpt_id_confidence),
          text_preview |-> TextPreview(result.raw_text)]
    ELSE [message      |-> OcrMessage(result.stpt_id, result.stpt_id_confidence)]

\* The body test_ocr_layer returns (main.py 400-415).
OcrLayerResponse(result) == WithFields(result, OcrLayerFields(result))

\* test_ocr_layer (main.py 378-420)
TestOcrLayer ==
    /\ ~IsNone(ocr_file)
    /\ IsNone(ocr_response)
    /\ ocr_response' = Some(OcrLayerResponse(analyze_receipt_text(Get(ocr_file))))
    /\ UNCHANGED <<store, uploads, locals, exifvars, ocr_file, hashvars, service_calls>>

LayersNext == TestExifLayer \/ TestOcrLayer

SpecLayers == LayersInit /\ [][LayersNext]_vars

(***************************************************************************)
(* HashService.compute_sha256 alone, over files of a few bytes and files   *)
(* around one and two blocks long.                                         *)
(***************************************************************************)
\* Longest of the short files, in bytes.
MaxBytes == 5

\* s repeated 2^k times.
RECURSIVE Doubled(_, _)
Doubled(s, k) == IF k = 0 THEN s ELSE Doubled(s \o s, k - 1)

\* BlockSize bytes.
OneBlock == Doubled("0123456789abcdef", 8)

RECURSIVE ByteStrings(_)
ByteStrings(n) ==
    IF n = 0 THEN {""}
    ELSE ByteStrings(n - 1) \cup {b \o c : b \in ByteStrings(n - 1), c \in {"a", "b"}}

\* The contents of the files hashed.
HashBytes ==
    ByteStrings(MaxBytes)
        \cup {SubSeq(OneBlock, 1, BlockSize - 1), OneBlock, OneBlock \o "x",
              OneBlock \o OneBlock, OneBlock \o OneBlock \o "xyz"}

\* The files hashed: the same bytes under two names.
HashFiles == {[bytes |-> b, filename |-> n] : b \in HashBytes, n \in {"a.jpg", "b.jpg"}}

HashInit ==
    /\ HandlersIdle
    /\ exif_file = None /\ exif_response = None
    /\ ocr_file = None /\ ocr_response = None
    /\ hash_file \in {Some(f) : f \in HashFiles}
    /\ hash_digest = None
    /\ service_calls = <<>>

\* HashService.compute_sha256 on the file at file_path.
ComputeSha256 ==
    /\ ~IsNone(hash_file)
    /\ IsNone(hash_digest)
    /\ hash_digest' = Some(compute_sha256(Get(hash_file)))
    /\ UNCHANGED <<store, uploads, locals, exifvars, ocrvars, hash_file, service_calls>>

HashNext == ComputeSha256

SpecHash == HashInit /\ [][HashNext]_vars

(***************************************************************************)
(* MetadataService alone: save_layer2_results and update_combined_risk_    *)
(* score called in any order, with any arguments, on the metadata table.   *)
(***************************************************************************)
\* Calls of the service the model makes.
MaxCalls == 3

ReceiptIds == {1, 2}

\* The analyses handed to save_layer2_results.
Layer2Analyses == {ExifAnalysis[f] : f \in UploadFiles}

\* db.query(ReceiptMetadata).filter(receipt_id == ...).first(): the row the
\* service works on; `fresh` is what it uses when there is none.
QueriedRows(rows, receipt_id, fresh) ==
    IF {m \in rows : m.receipt_id = receipt_id} = {} THEN fresh
    ELSE {m \in rows : m.receipt_id = receipt_id}

\* The table after save_layer2_results has committed, for each row first()
\* may return.
SaveLayer2Commit(rows, receipt_id, layer2_analysis) ==
    {(rows \ {metadata}) \cup {save_layer2_results(metadata, layer2_analysis)} :
        metadata \in QueriedRows(rows, receipt_id, {NewReceiptMetadata(receipt_id)})}

\* The table after update_combined_risk_score has returned (unchanged when it
\* finds no row and returns None).
UpdateCombinedCommit(rows, receipt_id, layer1_fraud, layer1_duplicate) ==
    IF QueriedRows(rows, receipt_id, {}) = {} THEN {rows}
    ELSE {(rows \ {metadata}) \cup
              {update_combined_risk_score(metadata, layer1_fraud, layer1_duplicate)} :
            metadata \in QueriedRows(rows, receipt_id, {})}

ServiceInit ==
    /\ HandlersIdle
    /\ exif_file = None /\ exif_response = None
    /\ ocr_file = None /\ ocr_response = None
    /\ hash_file = None /\ hash_digest = None
    /\ service_calls = <<>>

\* MetadataService.save_layer2_results(db, receipt_id, layer2_analysis)
SaveLayer2Results(receipt_id, layer2_analysis) ==
    /\ Len(service_calls) < MaxCalls
    /\ receipt_metadata' \in SaveLayer2Commit(receipt_metadata, receipt_id, layer2_analysis)
    /\ service_calls' = Append(service_calls,
                               [op |-> "save_layer2_results", receipt_id |-> receipt_id,
                                args |-> <<layer2_analysis>>])
    /\ UNCHANGED <<requests, receipts, next_request_id, uuids_minted, uploads, locals,
                   exifvars, ocrvars, hashvars>>

\* MetadataService.update_combined_risk_score(db, receipt_id, layer1_fraud,
\* layer1_duplicate)
UpdateCombinedRiskScore(receipt_id, layer1_fraud, layer1_duplicate) ==
    /\ Len(service_calls) < MaxCalls
    /\ receipt_metadata' \in UpdateCombinedCommit(receipt_metadata, receipt_id,
                                                  layer1_fraud, layer1_duplicate)
    /\ service_calls' = Append(service_calls,
                               [op |-> "update_combined_risk_score",
                                receipt_id |-> receipt_id,
                                args |-> <<layer1_fraud, layer1_duplicate>>])
    /\ UNCHANGED <<requests, receipts, next_request_id, uuids_minted, uploads, locals,
                   exifvars, ocrvars, hashvars>>

ServiceNext ==
    \E receipt_id \in ReceiptIds :
        \/ \E a \in Layer2Analyses : SaveLayer2Results(receipt_id, a)
        \/ \E f, d \in BOOLEAN : UpdateCombinedRiskScore(receipt_id, f, d)

SpecService == ServiceInit /\ [][ServiceNext]_vars

(***************************************************************************)
(* Properties of the upload handlers.                                      *)
(***************************************************************************)
\* The committed receipts holding the bytes worker w is uploading.
SameBytes(w) == {r \in receipts : r.sha256_hash = FileHash[File(w)]}

\* Worker w's handler has the Layer 1 result in hand.
Layer1Done(w) == ~IsNone(layer1_result[w])

\* C1: with uploads that do not overlap, an upload of bytes a different
\* student already has a stored receipt for gets fraud_suspected from
\* validate_file_integrity and analyze_exif is not run for it; analyze_exif has
\* run for an upload only after Layer 1 reported neither kind of duplicate.
C1_LaterUploadIsFraud ==
    \A w \in Workers :
        /\ (Layer1Done(w) /\ \E r \in SameBytes(w) : r.student_id # StudentId(w))
              => /\ Get(layer1_result[w]).fraud_suspected
                 /\ IsNone(layer2_result[w])
                 /\ pc[w] \in {"layer1_done", "done"}
        /\ ~IsNone(layer2_result[w])
              => /\ Layer1Done(w)
                 /\ ~Get(layer1_result[w]).fraud_suspected
                 /\ ~Get(layer1_result[w]).is_duplicate

\* A combined upload was rejected as fraud: another student's receipt for the
\* same bytes was stored, with its metadata row, by an earlier combined upload.
C1_Witness ==
    \E w \in Workers :
        /\ pc[w] = "done"
        /\ EndpointOf(w) = "combined"
        /\ Get(layer1_result[w]).fraud_suspected
        /\ Get(response[w]).action = "rejected"
        /\ IsNone(layer2_result[w])
        /\ \E r \in SameBytes(w) :
              /\ r.student_id # StudentId(w)
              /\ \E m \in receipt_metadata : m.receipt_id = r.receipt_id

\* C2: the store never holds two receipts with the same sha256_hash owned by
\* different students, however the lookups and inserts of concurrent uploads
\* interleave.
C2_NoHashSharedByTwoStudents ==
    \A r1, r2 \in receipts :
        r1.sha256_hash = r2.sha256_hash => r1.student_id = r2.student_id

\* C3: when Layer 1 reports fraud_suspected or is_duplicate, the handler's next
\* step returns action "rejected" and adds no Request, Receipt or
\* ReceiptMetadata row; the handler mints no receipt, runs no analysis and
\* computes no combined score for the upload, then or afterwards.
C3_RejectLeavesStoreUnchanged ==
    [][\A w \in Workers :
          /\ ( /\ pc[w] = "layer1_done"
               /\ \/ Get(layer1_result[w]).fraud_suspected
                  \/ Get(layer1_result[w]).is_duplicate
               /\ pc'[w] # pc[w] )
                => /\ pc'[w] = "done"
                   /\ Get(response'[w]).action = "rejected"
                   /\ UNCHANGED <<requests, receipts, receipt_metadata>>
                   /\ session'[w] = EmptySession
                   /\ IsNone(receipt_uuid'[w])
                   /\ IsNone(layer2_result'[w])
          /\ ( /\ pc[w] = "done"
               /\ Get(response[w]).action = "rejected"
               /\ pc'[w] # pc[w] )
                => /\ pc'[w] = "idle"
                   /\ UNCHANGED <<requests, receipts, receipt_metadata>>
      ]_vars

\* test_hash_layer has rejected a student's second upload of the same bytes.
C3_Witness ==
    \E w \in Workers :
        /\ pc[w] = "done"
        /\ EndpointOf(w) = "hash"
        /\ Get(layer1_result[w]).is_duplicate
        /\ ~Get(layer1_result[w]).fraud_suspected
        /\ Get(response[w]).action = "rejected"
        /\ IsNone(receipt_uuid[w])

\* C4: validate_file_integrity reports is_global_duplicate / fraud_suspected
\* exactly when the store holds a receipt with the digest owned by a different
\* student, and is_duplicate exactly when it holds one owned by the same
\* student, each lookup judged against the store it queried.
C4_Layer1ExactOnEveryStore ==
    [][\A w \in Workers :
          /\ (IsNone(own_lookup[w]) /\ ~IsNone(own_lookup'[w]))
                => (Get(own_lookup'[w]).is_dup
                      <=> \E r \in SameBytes(w) : r.student_id = StudentId(w))
          /\ (IsNone(layer1_result[w]) /\ ~IsNone(layer1_result'[w]))
                => LET l1 == Get(layer1_result'[w])
                   IN  /\ l1.fraud_suspected
                            <=> \E r \in SameBytes(w) : r.student_id # StudentId(w)
                       /\ l1.is_global_duplicate = l1.fraud_suspected
                       /\ l1.is_duplicate = Get(own_lookup[w]).is_dup
      ]_vars

\* The scores a combined response returns.
ResponseScores(resp) ==
    IF "combined_risk_score" \in DOMAIN resp
    THEN {resp.layer2.risk_score, resp.combined_risk_score}
    ELSE {}

\* C5: every risk score persisted or returned lies in [0,1]: the Metadata
\* layer's risk_score in a response, combined_risk_score, and the stored
\* layer2_risk_score and tampering_score (as committed by save_layer2_results
\* and as rewritten by update_combined_risk_score).
C5_ScoresWithinUnitInterval ==
    /\ \A m \in receipt_metadata :
          /\ m.layer2_risk_score \in 0..100
          /\ m.tampering_score \in 0..100
    /\ \A w \in Workers :
          ~IsNone(response[w]) => ResponseScores(Get(response[w])) \subseteq 0..100

\* Worker w's combined upload passed Layer 1 and its combined score is stored.
CombinedScored(w) ==
    /\ pc[w] \in {"respond", "done"}
    /\ EndpointOf(w) = "combined"
    /\ ~IsNone(receipt_uuid[w])

\* C6 as stated: on the no-duplicate path the persisted combined score is
\* min(1, metadata.risk_score + text.risk_score), text.risk_score being the
\* Text-Extraction layer's risk for the same image.
C6_CombinedSumsMetadataAndText ==
    \A w \in Workers :
        CombinedScored(w) =>
            \A m \in MetadataOf(Get(receipt_uuid[w])) :
                m.tampering_score =
                    Min(Get(layer2_result[w]).risk_score
                            + TextAnalysis[File(w)].risk_score, 100)

\* C6 amended: on the no-duplicate path the persisted combined score is
\* min(1, metadata.risk_score + the stored layer 3 and layer 4 scores); the
\* pipeline does not run the Text-Extraction layer, the stored layer 3 and
\* layer 4 scores are 0, and the score is min(1, metadata.risk_score).
C6_CombinedIsCappedMetadataRisk ==
    \A w \in Workers :
        CombinedScored(w) =>
            /\ MetadataOf(Get(receipt_uuid[w])) # {}
            /\ \A m \in MetadataOf(Get(receipt_uuid[w])) :
                  /\ m.layer2_risk_score = Get(layer2_result[w]).risk_score
                  /\ m.layer3_risk_score = 0
                  /\ m.layer4_risk_score = 0
                  /\ m.tampering_score =
                        Min(m.layer2_risk_score + m.layer3_risk_score
                                + m.layer4_risk_score, 100)

\* A combined upload whose Metadata risk exceeds 1 was scored: the cap applies.
C6_Witness ==
    \E w \in Workers :
        /\ CombinedScored(w)
        /\ Get(layer2_result[w]).risk_score > 100
        /\ \E m \in MetadataOf(Get(receipt_uuid[w])) : m.tampering_score = 100

\* Worker w's combined upload has its final response.
CombinedAnswered(w) ==
    /\ pc[w] = "done"
    /\ EndpointOf(w) = "combined"
    /\ ~IsNone(receipt_uuid[w])

\* The receipt of worker w's upload is in the store.
Stored(w) == \E r \in receipts : r.receipt_id = Get(receipt_uuid[w])

\* C7 as stated: the decision follows the clamped combined total: >= 0.8
\* reject, 0.5 <= total < 0.8 flag for manual review, < 0.5 approve; an upload
\* whose total is >= 0.8 is rejected rather than accepted and stored.
C7_HighRiskIsRejected ==
    \A w \in Workers :
        CombinedAnswered(w) =>
            LET resp  == Get(response[w])
                total == resp.combined_risk_score
            IN  /\ total >= 80 => (resp.action = "rejected" /\ ~Stored(w))
                /\ (total >= 50 /\ total < 80) => resp.action = "flagged_medium_risk"
                /\ total < 50 => resp.action = "approved"

\* C7 amended: the decision follows the Metadata layer's risk_score: >= 0.8
\* gives flagged_high_risk, 0.5 <= risk < 0.8 gives flagged_medium_risk,
\* < 0.5 gives approved; in all three cases the receipt is stored and the
\* response says so.
C7_HighRiskIsFlaggedAndStored ==
    \A w \in Workers :
        CombinedAnswered(w) =>
            LET resp  == Get(response[w])
                total == Get(layer2_result[w]).risk_score
            IN  /\ total >= 80 => resp.action = "flagged_high_risk"
                /\ (total >= 50 /\ total < 80) => resp.action = "flagged_medium_risk"
                /\ total < 50 => resp.action = "approved"
                /\ resp.combined_risk_score = Min(total, 100)
                /\ resp.database_saved
                /\ Stored(w)

\* A combined upload with Metadata risk exactly 0.8 was answered
\* flagged_high_risk and its receipt is stored.
C7_Witness ==
    \E w \in Workers :
        /\ CombinedAnswered(w)
        /\ Get(layer2_result[w]).risk_score = 80
        /\ Get(response[w]).action = "flagged_high_risk"
        /\ Stored(w)

\* The Layer 1 flags update_combined_risk_score records when both are false.
NoLayer1Finding == [fraud_detected |-> FALSE, duplicate_detected |-> FALSE]

\* C22: in the combined pipeline update_combined_risk_score is only reached
\* with layer1_fraud = false and layer1_duplicate = false, so the weights 0.9
\* and 0.3 are never added: for every submission that completes the pipeline
\* the persisted tampering_score is min(1, Metadata layer risk_score) and
\* risk_factors.layer1 records fraud_detected = false and duplicate_detected =
\* false.
C22_PipelineNeverAddsDuplicateWeights ==
    /\ \A w \in Workers :
          pc[w] = "update_combined" =>
              /\ ~Get(layer1_result[w]).fraud_suspected
              /\ ~Get(layer1_result[w]).is_duplicate
    /\ \A w \in Workers :
          CombinedScored(w) =>
              /\ MetadataOf(Get(receipt_uuid[w])) # {}
              /\ \A m \in MetadataOf(Get(receipt_uuid[w])) :
                    /\ m.tampering_score = Min(Get(layer2_result[w]).risk_score, 100)
                    /\ ~IsNone(m.risk_factors)
                    /\ Get(m.risk_factors).layer1 = NoLayer1Finding
    /\ \A m \in receipt_metadata :
          ~IsNone(m.risk_factors) =>
              /\ Get(m.risk_factors).layer1 = NoLayer1Finding
              /\ Get(m.risk_factors).total_risk = Min(m.layer2_risk_score, 100)
              /\ m.tampering_score = Min(m.layer2_risk_score, 100)

\* A combined upload completed the pipeline while another receipt with the
\* same digest is in the store (both passed Layer 1 before either was
\* committed): its score is the Metadata risk alone, 0.4 for the screenshot.
C22_Witness ==
    \E w \in Workers :
        /\ CombinedScored(w)
        /\ \E r \in receipts :
              /\ r.receipt_id # Get(receipt_uuid[w])
              /\ r.sha256_hash = Get(layer1_result[w]).sha256_hash
        /\ Get(layer2_result[w]).risk_score = 40
        /\ \E m \in MetadataOf(Get(receipt_uuid[w])) :
              /\ m.tampering_score = 40
              /\ Get(m.risk_factors).layer1 = NoLayer1Finding

\* The assessment persisted for the receipt of worker w's upload.
PersistedAssessments(w) == {m.assessment : m \in MetadataOf(Get(receipt_uuid[w]))}

\* C23: the ingestion-time action and the stored category of one submission
\* never contradict each other: when the combined pipeline answers approved
\* the assessment persisted for that receipt is low_risk or medium_risk, never
\* high_risk, and when it answers flagged_high_risk the persisted assessment is
\* high_risk.
C23_ActionAgreesWithStoredCategory ==
    \A w \in Workers :
        CombinedAnswered(w) =>
            /\ PersistedAssessments(w) # {}
            /\ Get(response[w]).action = "approved" =>
                  PersistedAssessments(w) \subseteq {Some("low_risk"), Some("medium_risk")}
            /\ Get(response[w]).action = "flagged_high_risk" =>
                  PersistedAssessments(w) = {Some("high_risk")}

\* A combined upload with Metadata risk 0.4 was answered approved and its
\* stored category is medium_risk.
C23_Witness ==
    \E w \in Workers :
        /\ CombinedAnswered(w)
        /\ Get(response[w]).action = "approved"
        /\ PersistedAssessments(w) = {Some("medium_risk")}

\* Worker w takes a step of validate_file_integrity.
Layer1Step(w) ==
    /\ pc[w] \in {"check_duplicate", "check_global_duplicate"}
    /\ pc'[w] # pc[w]

\* The receipts that exist: committed, or flushed in a worker's session.
AllReceipts == receipts \cup UNION {session[w].receipts : w \in Workers}

\* The receipts a step adds.
AddedReceipts == AllReceipts' \ AllReceipts

\* C17: a step of validate_file_integrity (check_duplicate,
\* check_global_duplicate) leaves the record store unchanged, whatever the
\* store holds; a receipt is added only by a handler, with the digest of its
\* upload, and only after the check reported neither kind of duplicate for it.
C17_Layer1IsReadOnly ==
    [][ /\ \A w \in Workers :
              Layer1Step(w) => (UNCHANGED store /\ UNCHANGED session)
        /\ AddedReceipts # {} =>
              \E w \in Workers :
                  /\ pc[w] = "layer1_done" /\ pc'[w] # pc[w]
                  /\ ~Get(layer1_result[w]).fraud_suspected
                  /\ ~Get(layer1_result[w]).is_duplicate
                  /\ \A r \in AddedReceipts :
                        /\ r.sha256_hash = Get(layer1_result[w]).sha256_hash
                        /\ r.sha256_hash = FileHash[File(w)]
                        /\ r.student_id = StudentId(w)
      ]_vars

\* Layer 1 has run against a store that holds the upload's digest, found the
\* duplicate, and the store is as it was.
C17_Witness ==
    \E w \in Workers :
        /\ pc[w] = "layer1_done"
        /\ Get(layer1_result[w]).is_duplicate
        /\ SameBytes(w) # {}
        /\ Cardinality(receipts) = 1

(***************************************************************************)
(* Properties of MetadataService.                                          *)
(***************************************************************************)
\* The step repeats the call made last, with the same arguments.
RepeatsLastCall ==
    /\ Len(service_calls) >= 1
    /\ Len(service_calls') = Len(service_calls) + 1
    /\ service_calls'[Len(service_calls')] = service_calls[Len(service_calls)]

\* C16: recomputation is idempotent: update_combined_risk_score called again
\* with the same layer1 flags, and save_layer2_results called again with the
\* same analysis, leave the ReceiptMetadata table as the first call left it; no
\* call leaves two records for one receipt.
C16_RecomputationIsIdempotent ==
    [][ /\ RepeatsLastCall => receipt_metadata' = receipt_metadata
        /\ \A id \in ReceiptIds :
              Cardinality({m \in receipt_metadata' : m.receipt_id = id}) <= 1
      ]_vars

\* save_layer2_results and then update_combined_risk_score twice with
\* layer1_duplicate set were called for one receipt: its row holds the score
\* of a single update.
C16_Witness ==
    /\ Len(service_calls) = 3
    /\ service_calls[1].op = "save_layer2_results"
    /\ service_calls[2].op = "update_combined_risk_score"
    /\ service_calls[2].args = <<FALSE, TRUE>>
    /\ service_calls[3] = service_calls[2]
    /\ service_calls[1].receipt_id = service_calls[2].receipt_id
    /\ \E m \in receipt_metadata :
          /\ m.receipt_id = service_calls[2].receipt_id
          /\ m.layer2_risk_score < 70
          /\ m.tampering_score = m.layer2_risk_score + 30

\* C21: in every committed ReceiptMetadata row that save_layer2_results and
\* update_combined_risk_score produce, the stored assessment is the category of
\* the stored tampering_score: high_risk iff the score is at least 0.7,
\* medium_risk iff it is at least 0.4 and below 0.7, low_risk iff it is below 0.4.
C21_AssessmentIsCategoryOfScore ==
    \A m \in receipt_metadata :
        /\ m.assessment \in {Some("high_risk"), Some("medium_risk"), Some("low_risk")}
        /\ m.assessment = Some("high_risk")   <=> m.tampering_score >= 70
        /\ m.assessment = Some("medium_risk") <=> (40 <= m.tampering_score
                                                   /\ m.tampering_score < 70)
        /\ m.assessment = Some("low_risk")    <=> m.tampering_score < 40

\* A row saved with a low Layer 2 risk was recomputed with layer1_fraud set and
\* then saved again with the same low analysis: the category went to high_risk
\* with the score and came back to low_risk with it.
C21_Witness ==
    /\ Len(service_calls) = 3
    /\ service_calls[1].op = "save_layer2_results"
    /\ service_calls[2].op = "update_combined_risk_score"
    /\ service_calls[2].args = <<TRUE, FALSE>>
    /\ service_calls[3] = service_calls[1]
    /\ service_calls[1].receipt_id = service_calls[2].receipt_id
    /\ \E m \in receipt_metadata :
          /\ m.receipt_id = service_calls[1].receipt_id
          /\ ~IsNone(m.risk_factors)
          /\ Get(m.risk_factors).total_risk >= 70
          /\ m.tampering_score < 40
          /\ m.assessment = Some("low_risk")

(***************************************************************************)
(* Properties of the Metadata layer.                                       *)
(***************************************************************************)
\* The analysis test_exif_layer returned for the posted file.
ExifResult == Get(exif_response).result

\* The tags of the posted file.
ExifTags == extract_exif(Get(exif_file))

InFlags(flags, name) == \E i \in DOMAIN flags : flags[i] = name
Count(flags, name) == Cardinality({i \in DOMAIN flags : flags[i] = name})

TimestampFields == {"DateTime", "DateTimeOriginal", "DateTimeDigitized"}

\* The risk conditions of steps 1-7 a tag set satisfies; the unknown-software
\* check counts only when the known-editor check did not fire.
BaseConditions(d) ==
    LET age == get_photo_age_days(d)
    IN  {c \in {"no_metadata", "known_editor", "unknown_software", "mobile_model",
                "inconsistency", "old_photo"} :
            \/ c = "no_metadata" /\ d = EmptyDict
            \/ c = "known_editor" /\ check_editing_software(d).found
            \/ c = "unknown_software" /\ ~check_editing_software(d).found
                                      /\ check_any_software(d).found
            \/ c = "mobile_model" /\ check_mobile_camera(d).found
            \/ c = "inconsistency" /\ check_exif_inconsistencies(d).found
            \/ c = "old_photo" /\ ~IsNone(age) /\ Get(age) > 90}

\* Step 8: metadata exists and none of the three timestamp fields does.
NoTimestampField(d) ==
    IF d # EmptyDict /\ \A k \in TimestampFields : ~Has(d, k)
    THEN {"missing_timestamp"} ELSE {}

\* Step 8 as analyze_exif tests it: metadata exists and the DateTime tag does not.
NoDateTimeTag(d) ==
    IF d # EmptyDict /\ ~Has(d, "DateTime") THEN {"missing_timestamp"} ELSE {}

\* The risk conditions of steps 1-8 a tag set satisfies.
SatisfiedConditions(d) == BaseConditions(d) \cup NoTimestampField(d)

\* The same conditions with the missing timestamp read as analyze_exif tests it.
FiredConditions(d) == BaseConditions(d) \cup NoDateTimeTag(d)

\* For every file that can be posted: the conditions it satisfies, the
\* conditions as analyze_exif tests them, and its risk_score.
ConditionRisks ==
    { LET d    == extract_exif(g)
          base == BaseConditions(d)
      IN  <<base \cup NoTimestampField(d), base \cup NoDateTimeTag(d),
            analyze_exif(g).risk_score>> : g \in ExifFiles }

\* C8: the Metadata layer's risk_score is never negative and is monotone in
\* the satisfied conditions of steps 1-8: a tag set whose satisfied conditions
\* include those of the posted file has a risk_score at least as large.
C8_RiskMonotoneInConditions ==
    ~IsNone(exif_response) =>
        LET satisfied == SatisfiedConditions(ExifTags)
        IN  /\ ExifResult.risk_score >= 0
            /\ \A p \in ConditionRisks :
                  satisfied \subseteq p[1] => ExifResult.risk_score <= p[3]

\* C8 with the missing-timestamp condition as analyze_exif tests it (DateTime
\* absent): the risk_score is never negative and monotone in the checks that
\* fired.
C8_RiskMonotoneInFiredChecks ==
    ~IsNone(exif_response) =>
        LET fired == FiredConditions(ExifTags)
        IN  /\ ExifResult.risk_score >= 0
            /\ \A p \in ConditionRisks :
                  fired \subseteq p[2] => ExifResult.risk_score <= p[3]

\* What the software checks added: the risk_score less the contributions of
\* the absence, consistency, age and missing-timestamp checks.
SoftwareContribution(result) ==
    result.risk_score
        - (IF InFlags(result.flags, "no_exif_data") THEN 40 ELSE 0)
        - (IF result.has_inconsistencies THEN 25 ELSE 0)
        - (IF InFlags(result.flags, "old_photo") THEN 10 ELSE 0)
        - (IF InFlags(result.flags, "missing_datetime") THEN 20 ELSE 0)

\* How often each of the three software flags was raised.
SoftwareFlags(result) ==
    [known   |-> Count(result.flags, "known_editing_software"),
     post    |-> Count(result.flags, "post_capture_editing_detected"),
     unknown |-> Count(result.flags, "unknown_software_detected")]

\* C9: at most one software contribution is applied: the known-editor check
\* adds 0.5 with known_editing_software alone; otherwise the unknown-software
\* check adds 0.6 with post_capture_editing_detected alone when the
\* mobile-capture check found a model, 0.3 with unknown_software_detected
\* alone when it did not; when neither check fires nothing is added.
C9_OneSoftwareContribution ==
    ~IsNone(exif_response) =>
        LET known   == check_editing_software(ExifTags).found
            unknown == check_any_software(ExifTags).found
            mobile  == check_mobile_camera(ExifTags).found
            added   == SoftwareContribution(ExifResult)
            raised  == SoftwareFlags(ExifResult)
        IN  IF known
            THEN added = 50 /\ raised = [known |-> 1, post |-> 0, unknown |-> 0]
            ELSE IF unknown /\ mobile
            THEN added = 60 /\ raised = [known |-> 0, post |-> 1, unknown |-> 0]
            ELSE IF unknown
            THEN added = 30 /\ raised = [known |-> 0, post |-> 0, unknown |-> 1]
            ELSE added = 0 /\ raised = [known |-> 0, post |-> 0, unknown |-> 0]

\* The posted tags name a known editor in Software, a second program in
\* ProcessingSoftware that check_any_software reports, and a mobile model:
\* only the known-editor contribution was applied.
C9_Witness ==
    /\ ~IsNone(exif_response)
    /\ check_editing_software(ExifTags).found
    /\ check_any_software(ExifTags).found
    /\ check_mobile_camera(ExifTags).found
    /\ InFlags(ExifResult.flags, "known_editing_software")
    /\ ~InFlags(ExifResult.flags, "post_capture_editing_detected")
    /\ SoftwareContribution(ExifResult) = 50

\* C10: missing_datetime is raised exactly when metadata is present and none
\* of DateTime, DateTimeOriginal, DateTimeDigitized exists in the tags, and so
\* never together with old_photo or a non-null photo_age_days.
C10_MissingDatetimeOnlyWithoutTimestamps ==
    ~IsNone(exif_response) =>
        LET missing == InFlags(ExifResult.flags, "missing_datetime")
        IN  /\ missing <=> (ExifTags # EmptyDict
                               /\ \A k \in TimestampFields : ~Has(ExifTags, k))
            /\ missing => /\ ~InFlags(ExifResult.flags, "old_photo")
                          /\ IsNone(ExifResult.photo_age_days)

\* The posted image is readable and has no tags, and test_exif_layer answered.
EmptyTagsAnalysed ==
    ~IsNone(exif_response) /\ Get(exif_file).decodable /\ Get(exif_file).exif = EmptyDict

\* C15: for an empty tag set the Metadata layer returns exif_status "missing",
\* its flags contain the absence flag (the flag of the absence check, which the
\* code names no_exif_data), and its risk_score is >= 0.4.
C15_EmptyTagsReportedMissing ==
    EmptyTagsAnalysed =>
        /\ ExifResult.exif_status = "missing"
        /\ ~ExifResult.exif_exists
        /\ InFlags(ExifResult.flags, "no_exif_data")
        /\ ExifResult.risk_score >= 40

\* A readable image without tags was analysed, with risk_score 0.4.
C15_Witness ==
    /\ EmptyTagsAnalysed
    /\ ExifResult.risk_score = 40

\* The three conditions of check_exif_inconsistencies the tags raise.
RaisedInconsistencies(d) ==
    {c \in {"software_without_camera_model", "incomplete_camera_data",
            "inconsistent_timestamps"} :
        \/ c = "software_without_camera_model" /\ Has(d, "Software") /\ ~Has(d, "Model")
        \/ c = "incomplete_camera_data"
              /\ Has(d, "DateTime") /\ (~Has(d, "Make") \/ ~Has(d, "Model"))
        \/ c = "inconsistent_timestamps"
              /\ Has(d, "DateTimeOriginal") /\ Has(d, "DateTimeDigitized")
              /\ d["DateTimeOriginal"] # "" /\ d["DateTimeDigitized"] # ""
              /\ d["DateTimeOriginal"] # d["DateTimeDigitized"]}

\* What the consistency check added: the risk_score less the contributions of
\* the absence, software, age and missing-timestamp checks.
ConsistencyContribution(result) ==
    result.risk_score
        - (IF InFlags(result.flags, "no_exif_data") THEN 40 ELSE 0)
        - (IF InFlags(result.flags, "known_editing_software") THEN 50 ELSE 0)
        - (IF InFlags(result.flags, "post_capture_editing_detected") THEN 60 ELSE 0)
        - (IF InFlags(result.flags, "unknown_software_detected") THEN 30 ELSE 0)
        - (IF InFlags(result.flags, "old_photo") THEN 10 ELSE 0)
        - (IF InFlags(result.flags, "missing_datetime") THEN 20 ELSE 0)

\* C20: the consistency check adds exactly 0.25 when at least one of its three
\* conditions is raised, however many, and nothing when none is; each raised
\* condition appends its flag once.
C20_ConsistencyAddsQuarterOnce ==
    ~IsNone(exif_response) =>
        LET raised == RaisedInconsistencies(ExifTags)
        IN  /\ ConsistencyContribution(ExifResult) = (IF raised # {} THEN 25 ELSE 0)
            /\ ExifResult.has_inconsistencies <=> raised # {}
            /\ \A c \in {"software_without_camera_model", "incomplete_camera_data",
                         "inconsistent_timestamps"} :
                  Count(ExifResult.flags, c) = (IF c \in raised THEN 1 ELSE 0)

\* All three conditions were raised for the posted tags: 0.25 was added once.
C20_Witness ==
    /\ ~IsNone(exif_response)
    /\ Cardinality(RaisedInconsistencies(ExifTags)) = 3
    /\ ConsistencyContribution(ExifResult) = 25

(***************************************************************************)
(* Properties of the Text-Extraction layer.                                *)
(***************************************************************************)
\* The body test_ocr_layer returned for the posted file.
OcrResult == Get(ocr_response)

\* The text Tesseract recognises in the posted file, stripped.
OcrText == strip(Get(ocr_file).text)

\* test_ocr_layer answered, and recognition had given some text.
TextAnalysed == ~IsNone(ocr_response) /\ OcrResult.ocr_successful

\* The confidences of the identifiers that were found.
FoundConfidences(result) ==
    (IF IsNone(result.stpt_id) THEN <<>> ELSE <<result.stpt_id_confidence>>)
        \o (IF IsNone(result.receipt_id) THEN <<>> ELSE <<result.receipt_id_confidence>>)

\* Whether the mean of the confidences is below 0.6 (0.0 when there is none).
MeanBelowThreshold(confidences) ==
    IF Len(confidences) = 0 THEN TRUE
    ELSE IF Len(confidences) = 1 THEN confidences[1] < 60
    ELSE confidences[1] + confidences[2] < 2 * 60

\* C11: low_ocr_quality is raised exactly when the average of the confidences
\* of the identifiers that were found (0.0 if neither was found) is below 0.6,
\* the average taken over the found identifiers only.
C11_LowQualityFromFoundIdentifiers ==
    TextAnalysed =>
        (InFlags(OcrResult.flags, "low_ocr_quality")
            <=> MeanBelowThreshold(FoundConfidences(OcrResult)))

\* The contributions that apply to a result: 0.4 for a missing card id or 0.2
\* for one of confidence below 0.7, 0.1 for a missing transaction id, 0.2 when
\* low_ocr_quality was raised.
TextContributions(result) ==
    (IF IsNone(result.stpt_id) THEN 40
     ELSE IF result.stpt_id_confidence < 70 THEN 20 ELSE 0)
        + (IF IsNone(result.receipt_id) THEN 10 ELSE 0)
        + (IF InFlags(result.flags, "low_ocr_quality") THEN 20 ELSE 0)

\* C12: analyze_receipt_text returns a risk_score in [0,1]: 0.5 when
\* recognition is empty or failed, otherwise the sum of the applicable
\* contributions clamped to at most 1.
C12_TextRiskIsClampedSum ==
    ~IsNone(ocr_response) =>
        /\ OcrResult.risk_score \in 0..100
        /\ OcrResult.ocr_successful <=> (Get(ocr_file).decodable /\ OcrText # "")
        /\ IF OcrResult.ocr_successful
           THEN OcrResult.risk_score = Min(TextContributions(OcrResult), 100)
           ELSE OcrResult.risk_score = 50

\* A text with neither identifier was analysed: all three contributions apply.
C12_Witness ==
    /\ TextAnalysed
    /\ IsNone(OcrResult.stpt_id) /\ IsNone(OcrResult.receipt_id)
    /\ InFlags(OcrResult.flags, "low_ocr_quality")
    /\ OcrResult.risk_score = 70

\* C13: when the recognised text is empty the layer returns ocr_successful =
\* false, risk_score 0.5 and flags [ocr_failed] alone; no identifier is
\* extracted: both are None with confidence 0.0 and no not-found or low-quality
\* flag is raised.
C13_EmptyTextFailsAtOnce ==
    (~IsNone(ocr_response) /\ Get(ocr_file).decodable /\ OcrText = "") =>
        /\ ~OcrResult.ocr_successful
        /\ OcrResult.raw_text = ""
        /\ OcrResult.risk_score = 50
        /\ OcrResult.flags = <<"ocr_failed">>
        /\ IsNone(OcrResult.stpt_id) /\ OcrResult.stpt_id_confidence = 0
        /\ IsNone(OcrResult.receipt_id) /\ OcrResult.receipt_id_confidence = 0
        /\ "average_confidence" \notin DOMAIN OcrResult

\* A readable image in which Tesseract recognised white space only was answered.
C13_Witness ==
    /\ ~IsNone(ocr_response)
    /\ Get(ocr_file).decodable
    /\ Get(ocr_file).text = " \n"
    /\ ~OcrResult.ocr_successful

\* The analysis analyze_exif gives for a readable image without tags.
NoTagsResult == analyze_exif([decodable |-> TRUE, exif |-> EmptyDict])

\* C14: for an image that cannot be decoded both layers answer, with the
\* finding of absence: analyze_exif as for an empty tag set (exif_status
\* missing, the no-metadata flag alone, risk_score 0.4) and analyze_receipt_text
\* with the recognition-failed finding (ocr_successful false, risk_score 0.5,
\* flag ocr_failed).
C14_DecodingFaultDegrades ==
    /\ (~IsNone(exif_response) /\ ~Get(exif_file).decodable) =>
          /\ Get(exif_response).result = NoTagsResult
          /\ Get(exif_response).result.exif_status = "missing"
          /\ Get(exif_response).result.flags = <<"no_exif_data">>
          /\ Get(exif_response).result.risk_score = 40
          /\ Get(exif_response).raw_exif_data = EmptyDict
    /\ (~IsNone(ocr_response) /\ ~Get(ocr_file).decodable) =>
          /\ ~OcrResult.ocr_successful
          /\ OcrResult.risk_score = 50
          /\ OcrResult.flags = <<"ocr_failed">>
          /\ IsNone(OcrResult.stpt_id) /\ IsNone(OcrResult.receipt_id)

\* Both endpoints answered for a corrupt image whose bytes carry tags and a
\* card id.
C14_Witness ==
    /\ ~IsNone(exif_response) /\ ~IsNone(ocr_response)
    /\ ~Get(ocr_file).decodable
    /\ Get(exif_file).exif # EmptyDict
    /\ Get(ocr_file).text # ""

\* C18: the card-id patterns are tried in their fixed order and the first that
\* matches wins, wherever the labels stand in the text: a SERIE CARD label with
\* its number gives that number with confidence 0.9 even after a generic label
\* with another number; a generic label alone gives its number with confidence
\* 0.7; no label gives (None, 0.0).
C18_CardIdByPatternPriority ==
    TextAnalysed =>
        IF Contains("SERIE CARD:555845", OcrText)
        THEN OcrResult.stpt_id = Some("555845") /\ OcrResult.stpt_id_confidence = 90
        ELSE IF Contains("card id: 123456", OcrText)
        THEN OcrResult.stpt_id = Some("123456") /\ OcrResult.stpt_id_confidence = 70
        ELSE IF Contains("STPT CARD-7654321", OcrText)
        THEN OcrResult.stpt_id = Some("7654321") /\ OcrResult.stpt_id_confidence = 70
        ELSE IsNone(OcrResult.stpt_id) /\ OcrResult.stpt_id_confidence = 0

\* The recognised text has a generic label with its number on the first line
\* and the SERIE CARD label after it: the SERIE CARD number was returned.
C18_Witness ==
    /\ TextAnalysed
    /\ Len(OcrText) > 15
    /\ SubSeq(OcrText, 1, 15) = "card id: 123456"
    /\ Contains("SERIE CARD:555845", OcrText)
    /\ OcrResult.stpt_id = Some("555845")

\* What the card id added to the risk of a result: the risk less the
\* contributions of a missing transaction id and of low_ocr_quality (the sum
\* of all contributions is at most 0.7, below the clamp).
CardIdContribution(result) ==
    result.risk_score
        - (IF IsNone(result.receipt_id) THEN 10 ELSE 0)
        - (IF InFlags(result.flags, "low_ocr_quality") THEN 20 ELSE 0)

\* C24: the low-confidence card-id flag (+0.2) is unreachable: extract_stpt_id
\* returns confidence 0.9, 0.7, or 0.0 with None, so for every recognised text
\* analyze_receipt_text never raises stpt_id_low_confidence and the card id
\* contributes either 0.4 (not found) or 0 to the risk.
C24_LowConfidenceCardIdUnreachable ==
    TextAnalysed =>
        /\ OcrResult.stpt_id_confidence \in {0, 70, 90}
        /\ OcrResult.stpt_id_confidence = 0 <=> IsNone(OcrResult.stpt_id)
        /\ ~InFlags(OcrResult.flags, "stpt_id_low_confidence")
        /\ InFlags(OcrResult.flags, "stpt_id_not_found") <=> IsNone(OcrResult.stpt_id)
        /\ CardIdContribution(OcrResult) = IF IsNone(OcrResult.stpt_id) THEN 40 ELSE 0

\* A card id was found under a generic label, with the lowest confidence a
\* found card id has (0.7), and no transaction id: the risk is that of the
\* missing transaction id and of low_ocr_quality alone.
C24_Witness ==
    /\ TextAnalysed
    /\ ~IsNone(OcrResult.stpt_id)
    /\ OcrResult.stpt_id_confidence = 70
    /\ IsNone(OcrResult.receipt_id)
    /\ OcrResult.risk_score = 30

(***************************************************************************)
(* Properties of the content digest.                                       *)
(***************************************************************************)
\* Largest of the small chunk sizes tried.
MaxChunkSize == 4

\* Reads a file may take when it is hashed in chunks of another size.
MaxReads == 8

\* The chunks of n bytes a loop of f.read(n) yields for the bytes b.
RECURSIVE Chunks(_, _)
Chunks(b, n) ==
    IF Len(b) = 0 THEN <<>>
    ELSE IF Len(b) <= n THEN <<b>>
    ELSE <<SubSeq(b, 1, n)>> \o Chunks(SubSeq(b, n + 1, Len(b)), n)

\* The digest of b fed to the hash in chunks of n bytes.
ChunkedDigest(b, n) == Sha256HexDigest(Sha256Update("", Chunks(b, n)))

ChunkSizes == (1..MaxChunkSize) \cup {1000, BlockSize - 1, BlockSize, BlockSize + 1}

\* C19: the digest is a function of the file's bytes alone: compute_sha256
\* returns what hashing the bytes whole returns, and so does feeding them in
\* chunks of any size (as far as MaxReads reads take it), for the code's 4096
\* included.
C19_DigestStableAcrossChunkSizes ==
    ~IsNone(hash_digest) =>
        LET b == Get(hash_file).bytes
        IN  /\ Get(hash_digest) = Sha256HexDigest(b)
            /\ \A n \in ChunkSizes :
                  Len(b) <= MaxReads * n => ChunkedDigest(b, n) = Get(hash_digest)

\* A file of two blocks and three bytes was hashed: the loop read three times.
C19_Witness ==
    /\ ~IsNone(hash_digest)
    /\ Len(Get(hash_file).bytes) = 2 * BlockSize + 3
    /\ Len(Blocks(Get(hash_file).bytes)) = 3

====
